---- MODULE Spec2Model ----
(***************************************************************************)
(* State-machine model of the VISA instrument console                      *)
(* (src/instrument_tool.py, class Console and the __main__ block).         *)
(*                                                                         *)
(* Strings are sequences of one-character strings, so that strip, split    *)
(* and upper are computed the way the Python code computes them.           *)
(* One action per do_* handler; an action is the whole handler, from the   *)
(* guards to the except clauses.  The action Prompt is the cmdloop         *)
(* returning to the prompt for the next line.                              *)
(***************************************************************************)
EXTENDS Integers, Sequences, FiniteSets, TLC

\* Number of handles the resource manager hands out in one run.
MaxOpens == 2

----------------------------------------------------------------------------
(* Python values *)

\* None is the empty tuple, a value x that is not None is <<x>>.
None == <<>>

Some(x) == <<x>>

Min(S) == CHOOSE x \in S : \A y \in S : x <= y

Max(S) == CHOOSE x \in S : \A y \in S : x >= y

Whitespace == {" "}

Quote == {"\""}

Lower == <<"a","b","c","d","e","f","g","h","i","j","k","l","m",
           "n","o","p","q","r","s","t","u","v","w","x","y","z">>

Capital == <<"A","B","C","D","E","F","G","H","I","J","K","L","M",
             "N","O","P","Q","R","S","T","U","V","W","X","Y","Z">>

\* str.strip(chars): drop the leading and trailing characters in chars.
Strip(s, chars) ==
    LET keep == {i \in 1..Len(s) : s[i] \notin chars}
    IN  IF keep = {} THEN <<>> ELSE SubSeq(s, Min(keep), Max(keep))

\* str.upper()
Upper(s) ==
    [i \in 1..Len(s) |->
        IF \E k \in 1..26 : Lower[k] = s[i]
        THEN Capital[CHOOSE k \in 1..26 : Lower[k] = s[i]]
        ELSE s[i]]

\* str.lower()
LowerCase(s) ==
    [i \in 1..Len(s) |->
        IF \E k \in 1..26 : Capital[k] = s[i]
        THEN Lower[CHOOSE k \in 1..26 : Capital[k] = s[i]]
        ELSE s[i]]

\* str.split(sep): always at least one part.
RECURSIVE Split(_, _)
Split(s, sep) ==
    IF \A i \in 1..Len(s) : s[i] # sep
    THEN <<s>>
    ELSE LET p == Min({i \in 1..Len(s) : s[i] = sep})
         IN  <<SubSeq(s, 1, p - 1)>> \o Split(SubSeq(s, p + 1, Len(s)), sep)

\* map(str.strip, s.split(','))
SplitStrip(s) ==
    LET parts == Split(s, ",")
    IN  [i \in 1..Len(parts) |-> Strip(parts[i], Whitespace)]

\* device_id.strip().strip('"')
Unquote(s) == Strip(Strip(s, Whitespace), Quote)

\* Extension without upper().
Extension_CaseSensitive(filename) ==
    LET parts == Split(filename, ".")
    IN  parts[Len(parts)]

\* filename.split('.')[-1].upper()
Extension(filename) ==
    LET parts == Split(filename, ".")
    IN  Upper(parts[Len(parts)])

----------------------------------------------------------------------------
(* Exceptions *)

\* Classes derived from Exception; KeyboardInterrupt and SystemExit are not.
ExceptionSubclasses == {"Exception", "VisaIOError", "ValueError", "IndexError"}

\* What one call into the VISA library, the file system or readline can do.
Outcome == {"ok", "VisaIOError", "Exception", "KeyboardInterrupt"}

Outcomes(n) == [1..n -> Outcome]

Matches(class, exc) ==
    \/ class = exc
    \/ class = "Exception" /\ exc \in ExceptionSubclasses

\* VisaThenAny without its second clause.
VisaThenAny_VisaOnly ==
    << [class |-> "VisaIOError", tag |-> "visa_error"] >>

\* The except clauses of the handlers, in source order, with the kind of
\* message each prints.
VisaThenAny ==
    << [class |-> "VisaIOError", tag |-> "visa_error"],
       [class |-> "Exception",   tag |-> "unexpected_error"] >>

ValueVisaThenAny ==
    << [class |-> "ValueError",  tag |-> "format_error"],
       [class |-> "VisaIOError", tag |-> "visa_error"],
       [class |-> "Exception",   tag |-> "unexpected_error"] >>

\* AnyOnly with the clause narrowed to VisaIOError.
AnyOnly_VisaOnly == << [class |-> "VisaIOError", tag |-> "error"] >>

AnyOnly == << [class |-> "Exception", tag |-> "error"] >>

----------------------------------------------------------------------------
(* State *)

VARIABLES
    rm,                  \* Console.rm: TRUE when the ResourceManager exists
    instrument,          \* Console.instrument: 0 is None, else the handle
    selected_device_id,  \* Console.selected_device_id: None or Some(string)
    opens,               \* handles opened so far by rm.open_resource
    closeCalled,         \* handles on which close() has been called
    timeout,             \* Console.instrument.timeout in ms: None without a
                         \* handle or when the handle has no such attribute
    pc,                  \* "prompt", "done" (handler returned), "exited"
    cmd,                 \* name of the command dispatched last
    arg,                 \* its argument string
    calls,               \* library calls of this invocation, in order
    out,                 \* kinds of message printed by this invocation
    raised,              \* exception that left the handler, or "none"
    written,             \* files written by this invocation
    received,            \* data the instrument returned to this invocation
    exit_status          \* None while running, Some(status) once exited

conn == <<rm, instrument, selected_device_id, opens, closeCalled, timeout>>

vars == <<rm, instrument, selected_device_id, opens, closeCalled, timeout,
          pc, cmd, arg, calls, out, raised, written, received, exit_status>>

\* Calls that reach the instrument over the transport.
TransportOps == {"write", "query", "query_binary_values"}

TransportCalls == SelectSeq(calls, LAMBDA c : c.op \in TransportOps)

\* Argument strings typed after the command name.  cmd.Cmd.parseline strips
\* the argument, so no value starts or ends with a blank.
Args ==
    { <<>>,
      <<"1">>,
      <<"o", "n">>,
      <<"O", "F", "F">>,
      <<"v", "o", "l", "t">>,
      <<"C", "U", "R", "R">>,
      <<"R", "e", "s">>,
      <<"\"", "\"">>,
      <<"\"", "A", "\"">>,
      <<"B">>,
      <<",">>,
      <<"1", ",", "2">>,
      <<"1", ",", " ", "p", "o", "s">>,
      <<"1", ",", "N", "E", "G">>,
      <<"1", ",", "2", ",", "3">>,
      <<"1", ",", "2", ",", "3", ",", "4">>,
      <<"p", "n", "g">>,
      <<"f", ".", "p", "n", "g">>,
      <<"f", ".", "J", "P", "G">>,
      <<"f", ".", "j", "p", "e", "g">>,
      <<"f", ".", "b", "m", "p">>,
      <<"f", ".", "c", "s", "v">>,
      <<"a", ".", "b", ".", "T", "x", "t">> }

\* Arguments given to the commands that take none (the handler ignores them).
NoArgs == { <<>>, <<"1">> }

\* File names given to the capture commands.
FileArgs ==
    { a \in Args : a = <<>> \/ a = <<"1">> \/ a = <<"p", "n", "g">>
                    \/ \E i \in 1..Len(a) : a[i] = "." }

\* Resource strings given to deviceselect and deviceinfo.
DeviceIds == { <<>>, <<"\"", "A", "\"">>, <<"B">>, <<"\"", "\"">> }

----------------------------------------------------------------------------
(* Running a handler body *)

Step(op, fmt, args) == [op |-> op, fmt |-> fmt, args |-> args]

\* What a handler did: its calls, its messages, the exception that left it,
\* the files it wrote and the responses it read and went on to use.
Res(log, msgs, exc, files) ==
    [log |-> log, out |-> msgs, exc |-> exc, files |-> files, code |-> 0,
     recv |-> <<>>, stop |-> FALSE]

\* Run that issues every call whatever the earlier ones did and reports the
\* first error at the end.
Run_KeepsGoing(h, steps, oc, okMsgs) ==
    LET n    == Len(steps)
        bad  == {i \in 1..n : oc[i] # "ok"}
    IN  Res([i \in 1..n |->
                [op |-> steps[i].op, fmt |-> steps[i].fmt,
                 args |-> steps[i].args, h |-> h, res |-> oc[i]]],
            IF bad = {} THEN okMsgs ELSE <<>>,
            IF bad = {} THEN "none" ELSE oc[Min(bad)],
            <<>>)

\* Run that issues a call that raised a second time before giving up.
Run_Retries(h, steps, oc, okMsgs) ==
    LET n    == Len(steps)
        bad  == {i \in 1..n : oc[i] # "ok"}
        last == IF bad = {} THEN n ELSE Min(bad)
        log  == [i \in 1..last |->
                    [op |-> steps[i].op, fmt |-> steps[i].fmt,
                     args |-> steps[i].args, h |-> h, res |-> oc[i]]]
    IN  Res(IF bad = {} THEN log ELSE log \o <<log[last]>>,
            IF bad = {} THEN okMsgs ELSE <<>>,
            IF bad = {} THEN "none" ELSE oc[last],
            <<>>)

\* A straight-line sequence of calls on handle h: the calls are made in
\* order and the first one that raises ends the sequence; the messages in
\* okMsgs are printed after the last call returned.
Run(h, steps, oc, okMsgs) ==
    LET n    == Len(steps)
        bad  == {i \in 1..n : oc[i] # "ok"}
        last == IF bad = {} THEN n ELSE Min(bad)
    IN  Res([i \in 1..last |->
                [op |-> steps[i].op, fmt |-> steps[i].fmt,
                 args |-> steps[i].args, h |-> h, res |-> oc[i]]],
            IF bad = {} THEN okMsgs ELSE <<>>,
            IF bad = {} THEN "none" ELSE oc[last],
            <<>>)

\* try: body / except clauses: the first clause whose class matches the
\* exception prints its message and the handler returns; an exception no
\* clause matches leaves the handler.
Try(body, clauses) ==
    IF body.exc = "none"
    THEN body
    ELSE LET m == {i \in 1..Len(clauses) : Matches(clauses[i].class, body.exc)}
         IN  IF m = {}
             THEN body
             ELSE [body EXCEPT !.out = @ \o <<clauses[Min(m)].tag>>,
                               !.exc = "none"]

NoDevice == Res(<<>>, <<"no_device">>, "none", <<>>)

Usage == Res(<<>>, <<"usage">>, "none", <<>>)

\* The __main__ block around cmdloop: KeyboardInterrupt and Exception are
\* caught and reported and the script ends normally (status 0); SystemExit
\* ends the process with its own code; anything else is a traceback.
MainClauses ==
    << [class |-> "KeyboardInterrupt", tag |-> "ctrl_c"],
       [class |-> "Exception",         tag |-> "fatal"] >>

\* Main without its except clauses: every exception but SystemExit is a
\* traceback.
Main_NoCatch(exc, code) ==
    IF exc = "SystemExit"
    THEN [msgs |-> <<>>, status |-> code]
    ELSE [msgs |-> <<"traceback">>, status |-> 1]

Main(exc, code) ==
    LET m == {i \in 1..Len(MainClauses) : Matches(MainClauses[i].class, exc)}
    IN  IF m # {}
        THEN [msgs |-> <<MainClauses[Min(m)].tag>>, status |-> 0]
        ELSE IF exc = "SystemExit"
             THEN [msgs |-> <<>>, status |-> code]
             ELSE [msgs |-> <<"traceback">>, status |-> 1]

\* Console.postloop, which cmdloop calls when its loop has ended because a
\* handler returned a true value: close on the handle, then the history
\* save, errors of either passed over.  po[1] is the outcome of close,
\* po[2] of write_history_file.
PostLoop(po) ==
    LET closing == IF instrument = 0
                   THEN [log |-> <<>>, exc |-> "none"]
                   ELSE [log |-> <<[op |-> "close", fmt |-> "", args |-> <<>>,
                                    h |-> instrument, res |-> po[1]]>>,
                         exc |-> IF po[1] \in ExceptionSubclasses \cup {"ok"}
                                 THEN "none" ELSE po[1]]
        history == [log |-> <<[op |-> "write_history_file", fmt |-> "",
                               args |-> <<>>, h |-> 0, res |-> po[2]]>>,
                    exc |-> IF po[2] \in ExceptionSubclasses \cup {"ok"}
                            THEN "none" ELSE po[2]]
    IN  IF closing.exc # "none"
        THEN closing
        ELSE [log |-> closing.log \o history.log, exc |-> history.exc]

\* onecmd dispatches the line to its handler; r is what the handler did.
\* A handler that returns a false value leaves the loop running (every
\* handler of the console returns None); a true value ends the loop,
\* postloop runs and the script ends; an exception that leaves the handler
\* leaves cmdloop too, without postloop, and reaches the __main__ block.
Return(name, a, r) ==
    /\ cmd' = name
    /\ arg' = a
    /\ written' = r.files
    /\ received' = r.recv
    /\ IF r.exc = "none" /\ ~r.stop
       THEN /\ calls' = r.log
            /\ raised' = "none"
            /\ pc' = "done"
            /\ out' = r.out
            /\ exit_status' = None
       ELSE IF r.exc = "none"
       THEN \E po \in Outcomes(2) :
               LET post == PostLoop(po)
               IN  /\ calls' = r.log \o post.log
                   /\ raised' = post.exc
                   /\ pc' = "exited"
                   /\ out' = r.out \o (IF post.exc = "none" THEN <<>>
                                       ELSE Main(post.exc, 0).msgs)
                   /\ exit_status' = Some(IF post.exc = "none" THEN 0
                                          ELSE Main(post.exc, 0).status)
       ELSE /\ calls' = r.log
            /\ raised' = r.exc
            /\ pc' = "exited"
            /\ out' = r.out \o Main(r.exc, r.code).msgs
            /\ exit_status' = Some(Main(r.exc, r.code).status)

\* cmdloop: postcmd, then the next prompt.
Prompt ==
    /\ pc = "done"
    /\ pc' = "prompt"
    /\ cmd' = ""
    /\ arg' = <<>>
    /\ calls' = <<>>
    /\ out' = <<>>
    /\ raised' = "none"
    /\ written' = <<>>
    /\ received' = <<>>
    /\ UNCHANGED <<conn, exit_status>>

Init ==
    /\ rm \in BOOLEAN
    /\ instrument = 0
    /\ selected_device_id = None
    /\ opens = 0
    /\ closeCalled = {}
    /\ timeout = None
    /\ pc = "prompt"
    /\ cmd = ""
    /\ arg = <<>>
    /\ calls = <<>>
    /\ out = <<>>
    /\ raised = "none"
    /\ written = <<>>
    /\ received = <<>>
    /\ exit_status = None

----------------------------------------------------------------------------
(* Device management *)

\* One call that is not a SCPI transfer (resource manager, close, timeout,
\* file, history), as it appears in the log.
Call(op, args, h, res) ==
    [op |-> op, fmt |-> "", args |-> args, h |-> h, res |-> res]

\* try: ... except Exception: pass
Swallow(body) ==
    IF body.exc \in ExceptionSubclasses
    THEN [body EXCEPT !.exc = "none"]
    ELSE body

\* do_devicelist; devices is what list_resources returns.
DeviceList(devices, oc) ==
    IF ~rm
    THEN Res(<<>>, <<"rm_unavailable">>, "none", <<>>)
    ELSE Try(Res(<<Call("list_resources", <<>>, 0, oc[1])>>,
                 IF oc[1] # "ok" THEN <<>>
                 ELSE IF devices # {} THEN <<"resources">>
                 ELSE <<"no_resources">>,
                 IF oc[1] = "ok" THEN "none" ELSE oc[1],
                 <<>>),
             AnyOnly)

do_devicelist ==
    /\ pc = "prompt"
    /\ \E a \in NoArgs, devices \in SUBSET {<<"A">>, <<"B">>}, oc \in Outcomes(1) :
        /\ Return("devicelist", a, DeviceList(devices, oc))
        /\ UNCHANGED conn

\* do_id on handle h; o is the outcome of the *IDN? query.
Id(h, o) ==
    IF h = 0
    THEN NoDevice
    ELSE Try(Run(h, <<Step("query", "*IDN?", <<>>)>>, <<o>>, <<"idn">>),
             VisaThenAny)

do_id ==
    /\ pc = "prompt"
    /\ \E a \in NoArgs, oc \in Outcomes(1) :
        /\ Return("id", a, Id(instrument, oc[1]))
        /\ UNCHANGED conn

\* AfterOpen that sends *IDN? itself with nothing around it: an error of
\* the query is raised into do_deviceselect.
AfterOpen_IdnRaises(h, oTimeout, oIdn) ==
    LET setTimeout ==
            Swallow(Res(<<Call("set_timeout", <<>>, h, oTimeout)>>, <<>>,
                        IF oTimeout = "ok" THEN "none" ELSE oTimeout, <<>>))
        idn == Run(h, <<Step("query", "*IDN?", <<>>)>>, <<oIdn>>, <<"idn">>)
    IN  IF setTimeout.exc # "none"
        THEN setTimeout
        ELSE Res(setTimeout.log \o idn.log, <<"connected">> \o idn.out,
                 idn.exc, <<>>)

\* The part of do_deviceselect after a successful open_resource: the new
\* handle h is stored, the timeout is set (errors passed over), the
\* connection is announced and do_id is called (errors passed over).
AfterOpen(h, oTimeout, oIdn) ==
    LET setTimeout ==
            Swallow(Res(<<Call("set_timeout", <<>>, h, oTimeout)>>, <<>>,
                        IF oTimeout = "ok" THEN "none" ELSE oTimeout, <<>>))
        idn == Swallow(Id(h, oIdn))
    IN  IF setTimeout.exc # "none"
        THEN setTimeout
        ELSE Res(setTimeout.log \o idn.log, <<"connected">> \o idn.out,
                 idn.exc, <<>>)

\* Timeouts a handle returned by open_resource carries: none (the handle has
\* no timeout attribute) or the library's own default of 2000 ms.
HandleTimeouts == { None, Some(2000) }

\* self.instrument.timeout = getattr(self.instrument, 'timeout', 5000) on a
\* handle that carries the timeout carried; o is the outcome of the
\* statement.  The value is the timeout of the handle afterwards.
SetTimeout(carried, o) ==
    IF o # "ok"
    THEN carried
    ELSE IF carried = None THEN Some(5000) ELSE carried

\* ClosePrevious that resets the handle and leaves the id.
ClosePrevious_KeepsId(h, id, o) ==
    IF h = 0
    THEN [log |-> <<>>, exc |-> "none", instrument |-> 0,
          selected_device_id |-> id, closed |-> {}]
    ELSE IF o \in ExceptionSubclasses \cup {"ok"}
    THEN [log |-> <<Call("close", <<>>, h, o)>>, exc |-> "none",
          instrument |-> 0, selected_device_id |-> id, closed |-> {h}]
    ELSE [log |-> <<Call("close", <<>>, h, o)>>, exc |-> o,
          instrument |-> h, selected_device_id |-> id, closed |-> {h}]

\* ClosePrevious that calls close() and forgets to reset handle and id.
ClosePrevious_KeepsHandle(h, id, o) ==
    IF h = 0
    THEN [log |-> <<>>, exc |-> "none", instrument |-> 0,
          selected_device_id |-> id, closed |-> {}]
    ELSE [log |-> <<Call("close", <<>>, h, o)>>,
          exc |-> IF o \in ExceptionSubclasses \cup {"ok"} THEN "none" ELSE o,
          instrument |-> h, selected_device_id |-> id, closed |-> {h}]

\* ClosePrevious that resets handle and id without calling close().
ClosePrevious_NoClose(h, id, o) ==
    [log |-> <<>>, exc |-> "none", instrument |-> 0,
     selected_device_id |-> IF h = 0 THEN id ELSE None, closed |-> {}]

\* ClosePrevious without the inner try: an error of close() is raised.
ClosePrevious_Propagates(h, id, o) ==
    IF h = 0
    THEN [log |-> <<>>, exc |-> "none", instrument |-> 0,
          selected_device_id |-> id, closed |-> {}]
    ELSE IF o = "ok"
    THEN [log |-> <<Call("close", <<>>, h, o)>>, exc |-> "none",
          instrument |-> 0, selected_device_id |-> None, closed |-> {h}]
    ELSE [log |-> <<Call("close", <<>>, h, o)>>, exc |-> o,
          instrument |-> h, selected_device_id |-> id, closed |-> {h}]

\* "Close previous instrument if open" of do_deviceselect: close() is called
\* on the handle h, an error of close is passed over, and handle and id are
\* set to None.  closed is the set of handles close() was called on.
ClosePrevious(h, id, o) ==
    IF h = 0
    THEN [log |-> <<>>, exc |-> "none", instrument |-> 0,
          selected_device_id |-> id, closed |-> {}]
    ELSE IF o \in ExceptionSubclasses \cup {"ok"}
    THEN [log |-> <<Call("close", <<>>, h, o)>>, exc |-> "none",
          instrument |-> 0, selected_device_id |-> None, closed |-> {h}]
    ELSE [log |-> <<Call("close", <<>>, h, o)>>, exc |-> o,
          instrument |-> h, selected_device_id |-> id, closed |-> {h}]

\* The except clauses that end do_deviceselect: VisaIOError is reported and
\* handle and id are set to None, any other Exception is only reported.
ConnectExcept(body) ==
    IF body.exc = "VisaIOError"
    THEN [body EXCEPT !.out = @ \o <<"connect_error">>,
                      !.exc = "none",
                      !.instrument = 0,
                      !.selected_device_id = None,
                      !.timeout = None]
    ELSE IF body.exc \in ExceptionSubclasses
    THEN [body EXCEPT !.out = @ \o <<"unexpected_error">>,
                      !.exc = "none"]
    ELSE body

\* DeviceSelect that closes the previous handle before it looks at its
\* argument.
DeviceSelect_ClosesFirst(device_id, carried, oc) ==
    LET State(r, inst, id, n, closed, tmo) ==
            [log |-> r.log, out |-> r.out, exc |-> r.exc, files |-> <<>>,
             code |-> 0, recv |-> <<>>, stop |-> FALSE, instrument |-> inst,
             selected_device_id |-> id, opens |-> n,
             closeCalled |-> closeCalled \cup closed, timeout |-> tmo]
        device_id_clean == Unquote(device_id)
        prev     == ClosePrevious(instrument, selected_device_id, oc[1])
        prevTimeout == IF prev.instrument = 0 THEN None ELSE timeout
        openLog  == prev.log \o
                    <<Call("open_resource", <<device_id_clean>>, 0, oc[2])>>
        h        == opens + 1
        rest     == AfterOpen(h, oc[3], oc[4])
    IN  IF device_id = <<>>
        THEN State(Res(prev.log, <<"usage">>, prev.exc, <<>>),
                   prev.instrument, prev.selected_device_id, opens,
                   prev.closed, prevTimeout)
        ELSE IF ~rm
        THEN State(Res(<<>>, <<"rm_unavailable">>, "none", <<>>),
                   instrument, selected_device_id, opens, {}, timeout)
        ELSE ConnectExcept(
               IF prev.exc # "none"
               THEN State(Res(prev.log, <<>>, prev.exc, <<>>),
                          prev.instrument, prev.selected_device_id, opens,
                          prev.closed, prevTimeout)
               ELSE IF oc[2] # "ok"
               THEN State(Res(openLog, <<>>, oc[2], <<>>),
                          prev.instrument, prev.selected_device_id, opens,
                          prev.closed, prevTimeout)
               ELSE State(Res(openLog \o rest.log, rest.out, rest.exc, <<>>),
                          h, Some(device_id_clean), h, prev.closed,
                          SetTimeout(carried, oc[3])))

\* do_deviceselect.  oc[1] is the outcome of closing the previous handle,
\* oc[2] of open_resource, oc[3] of setting the timeout, oc[4] of *IDN?;
\* carried is the timeout of the handle open_resource returns.
\* The result carries the connection fields the handler leaves behind.
DeviceSelect(device_id, carried, oc) ==
    LET State(r, inst, id, n, closed, tmo) ==
            [log |-> r.log, out |-> r.out, exc |-> r.exc, files |-> <<>>,
             code |-> 0, recv |-> <<>>, stop |-> FALSE, instrument |-> inst,
             selected_device_id |-> id, opens |-> n,
             closeCalled |-> closeCalled \cup closed, timeout |-> tmo]
        device_id_clean == Unquote(device_id)
        prev     == ClosePrevious(instrument, selected_device_id, oc[1])
        prevTimeout == IF prev.instrument = 0 THEN None ELSE timeout
        openLog  == prev.log \o
                    <<Call("open_resource", <<device_id_clean>>, 0, oc[2])>>
        h        == opens + 1
        rest     == AfterOpen(h, oc[3], oc[4])
    IN  IF device_id = <<>>
        THEN State(Usage, instrument, selected_device_id, opens, {}, timeout)
        ELSE IF ~rm
        THEN State(Res(<<>>, <<"rm_unavailable">>, "none", <<>>),
                   instrument, selected_device_id, opens, {}, timeout)
        ELSE ConnectExcept(
               IF prev.exc # "none"
               THEN State(Res(prev.log, <<>>, prev.exc, <<>>),
                          prev.instrument, prev.selected_device_id, opens,
                          prev.closed, prevTimeout)
               ELSE IF oc[2] # "ok"
               THEN State(Res(openLog, <<>>, oc[2], <<>>),
                          prev.instrument, prev.selected_device_id, opens,
                          prev.closed, prevTimeout)
               ELSE State(Res(openLog \o rest.log, rest.out, rest.exc, <<>>),
                          h, Some(device_id_clean), h, prev.closed,
                          SetTimeout(carried, oc[3])))

do_deviceselect ==
    /\ pc = "prompt"
    /\ \E a \in DeviceIds, carried \in HandleTimeouts, oc \in Outcomes(4) :
        LET r == DeviceSelect(a, carried, oc)
        IN  /\ r.opens <= MaxOpens
            /\ Return("deviceselect", a, r)
            /\ timeout' = r.timeout
            /\ instrument' = r.instrument
            /\ selected_device_id' = r.selected_device_id
            /\ opens' = r.opens
            /\ closeCalled' = r.closeCalled
            /\ UNCHANGED rm

\* do_deviceinfo: prints, touches neither the resource manager nor a handle.
DeviceInfo(device_id) ==
    IF device_id = <<>>
    THEN Usage
    ELSE Res(<<>>, <<"device_info">>, "none", <<>>)

do_deviceinfo ==
    /\ pc = "prompt"
    /\ \E a \in DeviceIds :
        /\ Return("deviceinfo", a, DeviceInfo(a))
        /\ UNCHANGED conn

----------------------------------------------------------------------------
(* The shapes shared by the SCPI handlers *)

\* Guard on the connection, then one fixed command inside try/except.
NoArgCmd(op, fmt, clauses, oc) ==
    IF instrument = 0
    THEN NoDevice
    ELSE Try(Run(instrument, <<Step(op, fmt, <<>>)>>, oc, <<"ok">>), clauses)

\* ArgCmd with the two guards in the other order.
ArgCmd_UsageFirst(a, steps, clauses, oc) ==
    IF a = <<>>
    THEN Usage
    ELSE IF instrument = 0
    THEN NoDevice
    ELSE Try(Run(instrument, steps, oc, <<"ok">>), clauses)

\* ArgCmd without the guard on the argument.
ArgCmd_NoUsage(a, steps, clauses, oc) ==
    IF instrument = 0
    THEN NoDevice
    ELSE Try(Run(instrument, steps, oc, <<"ok">>), clauses)

\* Guard on the connection, guard on the argument, then the commands built
\* from the argument inside try/except.
ArgCmd(a, steps, clauses, oc) ==
    IF instrument = 0
    THEN NoDevice
    ELSE IF a = <<>>
    THEN Usage
    ELSE Try(Run(instrument, steps, oc, <<"ok">>), clauses)

\* Unpack that lets surplus parts pass.
Unpack_AcceptsExtra(a, n) ==
    IF Len(SplitStrip(a)) >= n THEN "none" ELSE "ValueError"

\* x, y = map(str.strip, a.split(',')): ValueError unless there are
\* exactly n parts.
Unpack(a, n) ==
    IF Len(SplitStrip(a)) = n THEN "none" ELSE "ValueError"

\* Guards, then the unpacking of the argument and the commands built from
\* its parts inside try/except.
SplitCmd(a, n, Steps(_), clauses, oc) ==
    IF instrument = 0
    THEN NoDevice
    ELSE IF a = <<>>
    THEN Usage
    ELSE Try(IF Unpack(a, n) # "none"
             THEN Res(<<>>, <<>>, Unpack(a, n), <<>>)
             ELSE Run(instrument, Steps(SplitStrip(a)), oc, <<"ok">>),
             clauses)

----------------------------------------------------------------------------
(* Generic SCPI, DMM, oscilloscope, AFG, PSU, RF and load handlers *)

do_reset ==
    /\ pc = "prompt"
    /\ \E a \in NoArgs, oc \in Outcomes(1) :
        /\ Return("reset", a,
                  NoArgCmd("write", "*RST", VisaThenAny, oc))
        /\ UNCHANGED conn

do_wait_opc ==
    /\ pc = "prompt"
    /\ \E a \in NoArgs, oc \in Outcomes(1) :
        /\ Return("wait_opc", a,
                  NoArgCmd("query", "*OPC?", VisaThenAny, oc))
        /\ UNCHANGED conn

do_get_error ==
    /\ pc = "prompt"
    /\ \E a \in NoArgs, oc \in Outcomes(1) :
        /\ Return("get_error", a,
                  NoArgCmd("query", ":SYSTem:ERRor?", VisaThenAny, oc))
        /\ UNCHANGED conn

do_dmm_measure_dc_v ==
    /\ pc = "prompt"
    /\ \E a \in NoArgs, oc \in Outcomes(1) :
        /\ Return("dmm_measure_dc_v", a,
                  NoArgCmd("query", ":MEASure:VOLTage:DC?", VisaThenAny, oc))
        /\ UNCHANGED conn

do_dmm_measure_ac_v ==
    /\ pc = "prompt"
    /\ \E a \in NoArgs, oc \in Outcomes(1) :
        /\ Return("dmm_measure_ac_v", a,
                  NoArgCmd("query", ":MEASure:VOLTage:AC?", VisaThenAny, oc))
        /\ UNCHANGED conn

do_dmm_measure_dc_i ==
    /\ pc = "prompt"
    /\ \E a \in NoArgs, oc \in Outcomes(1) :
        /\ Return("dmm_measure_dc_i", a,
                  NoArgCmd("query", ":MEASure:CURRent:DC?", VisaThenAny, oc))
        /\ UNCHANGED conn

do_dmm_measure_ac_i ==
    /\ pc = "prompt"
    /\ \E a \in NoArgs, oc \in Outcomes(1) :
        /\ Return("dmm_measure_ac_i", a,
                  NoArgCmd("query", ":MEASure:CURRent:AC?", VisaThenAny, oc))
        /\ UNCHANGED conn

do_dmm_measure_continuity ==
    /\ pc = "prompt"
    /\ \E a \in NoArgs, oc \in Outcomes(1) :
        /\ Return("dmm_measure_continuity", a,
                  NoArgCmd("query", ":MEASure:CONTinuity?", VisaThenAny, oc))
        /\ UNCHANGED conn

do_dmm_measure_diode ==
    /\ pc = "prompt"
    /\ \E a \in NoArgs, oc \in Outcomes(1) :
        /\ Return("dmm_measure_diode", a,
                  NoArgCmd("query", ":MEASure:DIODe?", VisaThenAny, oc))
        /\ UNCHANGED conn

do_dmm_measure2_resistance ==
    /\ pc = "prompt"
    /\ \E a \in NoArgs, oc \in Outcomes(1) :
        /\ Return("dmm_measure2_resistance", a,
                  NoArgCmd("query", ":MEASure:RESistance?", VisaThenAny, oc))
        /\ UNCHANGED conn

do_dmm_measure4_resistance ==
    /\ pc = "prompt"
    /\ \E a \in NoArgs, oc \in Outcomes(1) :
        /\ Return("dmm_measure4_resistance", a,
                  NoArgCmd("query", ":MEASure:FRESistance?", VisaThenAny, oc))
        /\ UNCHANGED conn

do_oscope_get_setup ==
    /\ pc = "prompt"
    /\ \E a \in NoArgs, oc \in Outcomes(1) :
        /\ Return("oscope_get_setup", a,
                  NoArgCmd("query", ":SETup?", VisaThenAny, oc))
        /\ UNCHANGED conn

do_oscope_run ==
    /\ pc = "prompt"
    /\ \E a \in NoArgs, oc \in Outcomes(1) :
        /\ Return("oscope_run", a,
                  NoArgCmd("write", ":RUN", VisaThenAny, oc))
        /\ UNCHANGED conn

do_afg_output_on ==
    /\ pc = "prompt"
    /\ \E a \in NoArgs, oc \in Outcomes(1) :
        /\ Return("afg_output_on", a,
                  NoArgCmd("write", ":OUTPut ON", AnyOnly, oc))
        /\ UNCHANGED conn

do_afg_output_off ==
    /\ pc = "prompt"
    /\ \E a \in NoArgs, oc \in Outcomes(1) :
        /\ Return("afg_output_off", a,
                  NoArgCmd("write", ":OUTPut OFF", AnyOnly, oc))
        /\ UNCHANGED conn

do_psu_output_on ==
    /\ pc = "prompt"
    /\ \E a \in NoArgs, oc \in Outcomes(1) :
        /\ Return("psu_output_on", a,
                  NoArgCmd("write", ":OUTPut ON", AnyOnly, oc))
        /\ UNCHANGED conn

do_psu_output_off ==
    /\ pc = "prompt"
    /\ \E a \in NoArgs, oc \in Outcomes(1) :
        /\ Return("psu_output_off", a,
                  NoArgCmd("write", ":OUTPut OFF", AnyOnly, oc))
        /\ UNCHANGED conn

do_psu_protection_clear ==
    /\ pc = "prompt"
    /\ \E a \in NoArgs, oc \in Outcomes(1) :
        /\ Return("psu_protection_clear", a,
                  NoArgCmd("write", "*CLS", AnyOnly, oc))
        /\ UNCHANGED conn

do_vna_query_data ==
    /\ pc = "prompt"
    /\ \E a \in NoArgs, oc \in Outcomes(1) :
        /\ Return("vna_query_data", a,
                  NoArgCmd("query", ":CALCulate:SELected:DATA:FDATa?", VisaThenAny, oc))
        /\ UNCHANGED conn

do_eload_input_on ==
    /\ pc = "prompt"
    /\ \E a \in NoArgs, oc \in Outcomes(1) :
        /\ Return("eload_input_on", a,
                  NoArgCmd("write", ":INPut ON", AnyOnly, oc))
        /\ UNCHANGED conn

do_eload_input_off ==
    /\ pc = "prompt"
    /\ \E a \in NoArgs, oc \in Outcomes(1) :
        /\ Return("eload_input_off", a,
                  NoArgCmd("write", ":INPut OFF", AnyOnly, oc))
        /\ UNCHANGED conn

do_write ==
    /\ pc = "prompt"
    /\ \E a \in Args, oc \in Outcomes(1) :
        /\ Return("write", a,
                  ArgCmd(a,
                         <<Step("write", "{}", <<Unquote(a)>>)>>,
                         VisaThenAny, oc))
        /\ UNCHANGED conn

\* do_query that drops the connection when the query fails.
do_query_Disconnects ==
    /\ pc = "prompt"
    /\ \E a \in Args, oc \in Outcomes(1) :
        LET r == ArgCmd(a, <<Step("query", "{}", <<Unquote(a)>>)>>,
                        VisaThenAny, oc)
            failed == \E i \in 1..Len(r.log) : r.log[i].res # "ok"
        IN  /\ Return("query", a, r)
            /\ instrument' = IF failed THEN 0 ELSE instrument
            /\ selected_device_id' =
                    IF failed THEN None ELSE selected_device_id
            /\ timeout' = IF failed THEN None ELSE timeout
            /\ UNCHANGED <<rm, opens, closeCalled>>

do_query ==
    /\ pc = "prompt"
    /\ \E a \in Args, oc \in Outcomes(1) :
        /\ Return("query", a,
                  ArgCmd(a,
                         <<Step("query", "{}", <<Unquote(a)>>)>>,
                         VisaThenAny, oc))
        /\ UNCHANGED conn

do_dmm_func_set ==
    /\ pc = "prompt"
    /\ \E a \in Args, oc \in Outcomes(1) :
        /\ Return("dmm_func_set", a,
                  ArgCmd(a,
                         <<Step("write", ":SENSe:FUNCtion \"{}\"", <<Upper(Unquote(a))>>)>>,
                         VisaThenAny, oc))
        /\ UNCHANGED conn

do_dmm_range_set ==
    /\ pc = "prompt"
    /\ \E a \in Args, oc \in Outcomes(1) :
        /\ Return("dmm_range_set", a,
                  ArgCmd(a,
                         <<Step("write", ":SENSe:RANGe {}", <<Strip(a, Whitespace)>>)>>,
                         VisaThenAny, oc))
        /\ UNCHANGED conn

do_dmm_delay_set ==
    /\ pc = "prompt"
    /\ \E a \in Args, oc \in Outcomes(1) :
        /\ Return("dmm_delay_set", a,
                  ArgCmd(a,
                         <<Step("write", ":SENSe:DELay {}", <<Strip(a, Whitespace)>>)>>,
                         VisaThenAny, oc))
        /\ UNCHANGED conn

do_dmm_resolution_set ==
    /\ pc = "prompt"
    /\ \E a \in Args, oc \in Outcomes(1) :
        /\ Return("dmm_resolution_set", a,
                  ArgCmd(a,
                         <<Step("write", ":SENSe:RESolution {}", <<Strip(a, Whitespace)>>)>>,
                         VisaThenAny, oc))
        /\ UNCHANGED conn

do_oscope_set_timebase ==
    /\ pc = "prompt"
    /\ \E a \in Args, oc \in Outcomes(1) :
        /\ Return("oscope_set_timebase", a,
                  ArgCmd(a,
                         <<Step("write", ":HORizontal:SCAle {}", <<a>>)>>,
                         VisaThenAny, oc))
        /\ UNCHANGED conn

do_oscope_set_trigger_source ==
    /\ pc = "prompt"
    /\ \E a \in Args, oc \in Outcomes(1) :
        /\ Return("oscope_set_trigger_source", a,
                  ArgCmd(a,
                         <<Step("write", ":TRIGger:SOURce {}", <<Upper(a)>>)>>,
                         VisaThenAny, oc))
        /\ UNCHANGED conn

do_psu_set_voltage ==
    /\ pc = "prompt"
    /\ \E a \in Args, oc \in Outcomes(1) :
        /\ Return("psu_set_voltage", a,
                  ArgCmd(a,
                         <<Step("write", ":VOLTage {}", <<a>>)>>,
                         AnyOnly, oc))
        /\ UNCHANGED conn

do_psu_set_current ==
    /\ pc = "prompt"
    /\ \E a \in Args, oc \in Outcomes(1) :
        /\ Return("psu_set_current", a,
                  ArgCmd(a,
                         <<Step("write", ":CURRent {}", <<a>>)>>,
                         AnyOnly, oc))
        /\ UNCHANGED conn

do_psu_set_ovp ==
    /\ pc = "prompt"
    /\ \E a \in Args, oc \in Outcomes(1) :
        /\ Return("psu_set_ovp", a,
                  ArgCmd(a,
                         <<Step("write", ":VOLTage:PROTection:LEVel {}", <<a>>)>>,
                         AnyOnly, oc))
        /\ UNCHANGED conn

do_psu_set_ocp ==
    /\ pc = "prompt"
    /\ \E a \in Args, oc \in Outcomes(1) :
        /\ Return("psu_set_ocp", a,
                  ArgCmd(a,
                         <<Step("write", ":CURRent:PROTection:LEVel {}", <<a>>)>>,
                         AnyOnly, oc))
        /\ UNCHANGED conn

do_psu_set_otp ==
    /\ pc = "prompt"
    /\ \E a \in Args, oc \in Outcomes(1) :
        /\ Return("psu_set_otp", a,
                  ArgCmd(a,
                         <<Step("write", ":SENSe:TEMPerature:PROTection:LEVel {}", <<a>>)>>,
                         AnyOnly, oc))
        /\ UNCHANGED conn

do_rf_set_center_freq ==
    /\ pc = "prompt"
    /\ \E a \in Args, oc \in Outcomes(1) :
        /\ Return("rf_set_center_freq", a,
                  ArgCmd(a,
                         <<Step("write", ":SENSe:FREQuency:CENTer {}", <<a>>)>>,
                         VisaThenAny, oc))
        /\ UNCHANGED conn

do_rf_set_span ==
    /\ pc = "prompt"
    /\ \E a \in Args, oc \in Outcomes(1) :
        /\ Return("rf_set_span", a,
                  ArgCmd(a,
                         <<Step("write", ":SENSe:FREQuency:SPAN {}", <<a>>)>>,
                         VisaThenAny, oc))
        /\ UNCHANGED conn

do_rf_set_power ==
    /\ pc = "prompt"
    /\ \E a \in Args, oc \in Outcomes(1) :
        /\ Return("rf_set_power", a,
                  ArgCmd(a,
                         <<Step("write", ":SOURce:POWer:LEVel {}", <<a>>)>>,
                         VisaThenAny, oc))
        /\ UNCHANGED conn

do_sa_read_marker ==
    /\ pc = "prompt"
    /\ \E a \in Args, oc \in Outcomes(2) :
        /\ Return("sa_read_marker", a,
                  ArgCmd(a,
                         <<Step("query", ":CALCulate:MARKer{}:X?", <<Strip(a, Whitespace)>>),
                          Step("query", ":CALCulate:MARKer{}:Y?", <<Strip(a, Whitespace)>>)>>,
                         VisaThenAny, oc))
        /\ UNCHANGED conn

do_eload_set_current ==
    /\ pc = "prompt"
    /\ \E a \in Args, oc \in Outcomes(1) :
        /\ Return("eload_set_current", a,
                  ArgCmd(a,
                         <<Step("write", ":CURRent {}", <<a>>)>>,
                         VisaThenAny, oc))
        /\ UNCHANGED conn

do_eload_set_voltage ==
    /\ pc = "prompt"
    /\ \E a \in Args, oc \in Outcomes(1) :
        /\ Return("eload_set_voltage", a,
                  ArgCmd(a,
                         <<Step("write", ":VOLTage {}", <<a>>)>>,
                         VisaThenAny, oc))
        /\ UNCHANGED conn

do_eload_set_resistance ==
    /\ pc = "prompt"
    /\ \E a \in Args, oc \in Outcomes(1) :
        /\ Return("eload_set_resistance", a,
                  ArgCmd(a,
                         <<Step("write", ":RESistance {}", <<a>>)>>,
                         VisaThenAny, oc))
        /\ UNCHANGED conn

do_eload_set_power ==
    /\ pc = "prompt"
    /\ \E a \in Args, oc \in Outcomes(1) :
        /\ Return("eload_set_power", a,
                  ArgCmd(a,
                         <<Step("write", ":POWer {}", <<a>>)>>,
                         VisaThenAny, oc))
        /\ UNCHANGED conn

do_eload_set_slew ==
    /\ pc = "prompt"
    /\ \E a \in Args, oc \in Outcomes(1) :
        /\ Return("eload_set_slew", a,
                  ArgCmd(a,
                         <<Step("write", ":CURRent:SLEW:RATE {}", <<a>>)>>,
                         AnyOnly, oc))
        /\ UNCHANGED conn

do_eload_set_ovl ==
    /\ pc = "prompt"
    /\ \E a \in Args, oc \in Outcomes(1) :
        /\ Return("eload_set_ovl", a,
                  ArgCmd(a,
                         <<Step("write", ":VOLTage:PROTection:LEVel {}", <<a>>)>>,
                         AnyOnly, oc))
        /\ UNCHANGED conn

do_eload_set_opl ==
    /\ pc = "prompt"
    /\ \E a \in Args, oc \in Outcomes(1) :
        /\ Return("eload_set_opl", a,
                  ArgCmd(a,
                         <<Step("write", ":POWer:PROTection:LEVel {}", <<a>>)>>,
                         AnyOnly, oc))
        /\ UNCHANGED conn

oscope_set_vertscale_steps(p) ==
        <<Step("write", ":CHANnel{}:SCAle {}", <<p[1], p[2]>>)>>

do_oscope_set_vertscale ==
    /\ pc = "prompt"
    /\ \E a \in Args, oc \in Outcomes(1) :
        /\ Return("oscope_set_vertscale", a,
                  SplitCmd(a, 2, oscope_set_vertscale_steps, ValueVisaThenAny, oc))
        /\ UNCHANGED conn

oscope_measure_param_steps(p) ==
        <<Step("query", ":MEASure:{}? CHANnel{}", <<Upper(p[2]), p[1]>>)>>

do_oscope_measure_param ==
    /\ pc = "prompt"
    /\ \E a \in Args, oc \in Outcomes(1) :
        /\ Return("oscope_measure_param", a,
                  SplitCmd(a, 2, oscope_measure_param_steps, ValueVisaThenAny, oc))
        /\ UNCHANGED conn

oscope_set_trigger_level_steps(p) ==
        <<Step("write", ":TRIGger:LEVel {}", <<p[2]>>)>>

do_oscope_set_trigger_level ==
    /\ pc = "prompt"
    /\ \E a \in Args, oc \in Outcomes(1) :
        /\ Return("oscope_set_trigger_level", a,
                  SplitCmd(a, 2, oscope_set_trigger_level_steps, ValueVisaThenAny, oc))
        /\ UNCHANGED conn

afg_set_wave_steps(p) ==
        <<Step("write", ":FUNCtion {}", <<Upper(p[1])>>),
           Step("write", ":FREQuency {}", <<p[2]>>),
           Step("write", ":VOLTage {}", <<p[3]>>)>>

do_afg_set_wave ==
    /\ pc = "prompt"
    /\ \E a \in Args, oc \in Outcomes(3) :
        /\ Return("afg_set_wave", a,
                  SplitCmd(a, 3, afg_set_wave_steps, ValueVisaThenAny, oc))
        /\ UNCHANGED conn

sa_set_rbw_vbw_steps(p) ==
        <<Step("write", ":SENSe:BANDwidth:RESolution {}", <<p[1]>>),
           Step("write", ":SENSe:BANDwidth:VIDeo {}", <<p[2]>>)>>

do_sa_set_rbw_vbw ==
    /\ pc = "prompt"
    /\ \E a \in Args, oc \in Outcomes(2) :
        /\ Return("sa_set_rbw_vbw", a,
                  SplitCmd(a, 2, sa_set_rbw_vbw_steps, ValueVisaThenAny, oc))
        /\ UNCHANGED conn

vna_set_sweep_steps(p) ==
        <<Step("write", ":SENSe:FREQuency:STARt {}", <<p[1]>>),
           Step("write", ":SENSe:FREQuency:STOP {}", <<p[2]>>),
           Step("write", ":SENSe:SWEep:POINts {}", <<p[3]>>)>>

do_vna_set_sweep ==
    /\ pc = "prompt"
    /\ \E a \in Args, oc \in Outcomes(3) :
        /\ Return("vna_set_sweep", a,
                  SplitCmd(a, 3, vna_set_sweep_steps, ValueVisaThenAny, oc))
        /\ UNCHANGED conn

vna_measure_sparam_steps(p) ==
        <<Step("write", ":CALCulate:PARameter:DEFine \"Trc1_{}\",{}", <<Upper(p[1]), Upper(p[1])>>),
           Step("write", ":CALCulate:SELected:FORMat {}", <<Upper(p[2])>>)>>

do_vna_measure_sparam ==
    /\ pc = "prompt"
    /\ \E a \in Args, oc \in Outcomes(2) :
        /\ Return("vna_measure_sparam", a,
                  SplitCmd(a, 2, vna_measure_sparam_steps, ValueVisaThenAny, oc))
        /\ UNCHANGED conn

vna_set_trace_steps(p) ==
        <<Step("write", ":CALCulate{}:PARameter{}:DEFine \"{}\"", <<p[3], p[1], Upper(p[2])>>),
           Step("write", ":DISPlay:WINDow{}:TRACe{}:FEED \"{}\"", <<p[3], p[1], Upper(p[2])>>)>>

do_vna_set_trace ==
    /\ pc = "prompt"
    /\ \E a \in Args, oc \in Outcomes(2) :
        /\ Return("vna_set_trace", a,
                  SplitCmd(a, 3, vna_set_trace_steps, ValueVisaThenAny, oc))
        /\ UNCHANGED conn

eload_set_transient_steps(p) ==
        <<Step("write", ":CURRent:STATic {}", <<p[1]>>),
           Step("write", ":CURRent:TRANsient:LEVel {}", <<p[2]>>),
           Step("write", ":CURRent:TRANsient:PULSe:WIDTh {}", <<p[3]>>),
           Step("write", ":FUNCtion:MODE TRANsient", <<>>)>>

do_eload_set_transient ==
    /\ pc = "prompt"
    /\ \E a \in Args, oc \in Outcomes(4) :
        /\ Return("eload_set_transient", a,
                  SplitCmd(a, 3, eload_set_transient_steps, ValueVisaThenAny, oc))
        /\ UNCHANGED conn

----------------------------------------------------------------------------
(* Handlers with an enumerated argument *)

OnOff == { <<"O", "N">>, <<"O", "F", "F">>, <<"1">>, <<"0">> }

LoadModes == { <<"C", "U", "R", "R">>, <<"V", "O", "L", "T">>,
               <<"R", "E", "S">>, <<"P", "O", "W">> }

Slopes == { <<"P", "O", "S">>, <<"N", "E", "G">>, <<"E", "I", "T", "H">> }

MeasureTypes == { <<"V", "O", "L", "T">>, <<"C", "U", "R", "R">> }

\* EnumCmd without the test of the value: whatever was typed is sent.
EnumCmd_NoCheck(a, value, allowed, fmt, clauses, oc) ==
    IF instrument = 0
    THEN NoDevice
    ELSE IF a = <<>>
    THEN Usage
    ELSE Try(Run(instrument, <<Step("write", fmt, <<value>>)>>, oc, <<"ok">>),
             clauses)

\* Guards, then inside try: a value outside the allowed set prints a
\* message and returns, an allowed one is sent.
EnumCmd(a, value, allowed, fmt, clauses, oc) ==
    IF instrument = 0
    THEN NoDevice
    ELSE IF a = <<>>
    THEN Usage
    ELSE IF value \notin allowed
    THEN Res(<<>>, <<"invalid">>, "none", <<>>)
    ELSE Try(Run(instrument, <<Step("write", fmt, <<value>>)>>, oc, <<"ok">>),
             clauses)

do_dmm_autoranging ==
    /\ pc = "prompt"
    /\ \E a \in Args, oc \in Outcomes(1) :
        /\ Return("dmm_autoranging", a,
                  EnumCmd(a, Upper(a), OnOff, ":SENSe:RANGe:AUTO {}",
                          VisaThenAny, oc))
        /\ UNCHANGED conn

do_eload_set_mode ==
    /\ pc = "prompt"
    /\ \E a \in Args, oc \in Outcomes(1) :
        /\ Return("eload_set_mode", a,
                  EnumCmd(a, Upper(Strip(a, Whitespace)), LoadModes,
                          ":FUNCtion:MODE {}", VisaThenAny, oc))
        /\ UNCHANGED conn

\* do_oscope_set_trigger_slope: the unpacking comes first, then the check
\* of the slope; only the slope is sent.
TriggerSlope(a, oc) ==
    IF instrument = 0
    THEN NoDevice
    ELSE IF a = <<>>
    THEN Usage
    ELSE Try(IF Unpack(a, 2) # "none"
             THEN Res(<<>>, <<>>, Unpack(a, 2), <<>>)
             ELSE IF Upper(SplitStrip(a)[2]) \notin Slopes
             THEN Res(<<>>, <<"invalid">>, "none", <<>>)
             ELSE Run(instrument,
                      <<Step("write", ":TRIGger:EDGE:SLOpe {}",
                             <<Upper(SplitStrip(a)[2])>>)>>,
                      oc, <<"ok">>),
             ValueVisaThenAny)

do_oscope_set_trigger_slope ==
    /\ pc = "prompt"
    /\ \E a \in Args, oc \in Outcomes(1) :
        /\ Return("oscope_set_trigger_slope", a, TriggerSlope(a, oc))
        /\ UNCHANGED conn

\* do_psu_measure_output and do_eload_measure_input: no test for an empty
\* argument; the argument is normalised before the try and anything but
\* VOLT or CURR prints the usage.
MeasureCmd(a, oc) ==
    LET measure_type == Upper(Strip(a, Whitespace))
    IN  IF instrument = 0
        THEN NoDevice
        ELSE IF measure_type \notin MeasureTypes
        THEN Usage
        ELSE Try(Run(instrument,
                     <<Step("query", ":MEASure:{}?", <<measure_type>>)>>,
                     oc, <<"ok">>),
                 AnyOnly)

do_psu_measure_output ==
    /\ pc = "prompt"
    /\ \E a \in Args, oc \in Outcomes(1) :
        /\ Return("psu_measure_output", a, MeasureCmd(a, oc))
        /\ UNCHANGED conn

do_eload_measure_input ==
    /\ pc = "prompt"
    /\ \E a \in Args, oc \in Outcomes(1) :
        /\ Return("eload_measure_input", a, MeasureCmd(a, oc))
        /\ UNCHANGED conn

\* do_afg_psu_slew_set: with a comma the argument is unpacked into channel
\* and rate, without one the whole argument is the rate; one except clause.
SlewSet(a, oc) ==
    IF instrument = 0
    THEN NoDevice
    ELSE IF a = <<>>
    THEN Usage
    ELSE Try(IF \E i \in 1..Len(a) : a[i] = ","
             THEN IF Unpack(a, 2) # "none"
                  THEN Res(<<>>, <<>>, Unpack(a, 2), <<>>)
                  ELSE Run(instrument,
                           <<Step("write", ":VOLTage:SLEW:RATE {}",
                                  <<SplitStrip(a)[2]>>)>>,
                           oc, <<"ok">>)
             ELSE Run(instrument,
                      <<Step("write", ":VOLTage:SLEW:RATE {}",
                             <<Strip(a, Whitespace)>>)>>,
                      oc, <<"ok">>),
             AnyOnly)

do_afg_psu_slew_set ==
    /\ pc = "prompt"
    /\ \E a \in Args, oc \in Outcomes(1) :
        /\ Return("afg_psu_slew_set", a, SlewSet(a, oc))
        /\ UNCHANGED conn

----------------------------------------------------------------------------
(* Screen capture and waveform capture *)

\* ImageFormats with one more encoding.
ImageFormats_WithBmp ==
    { <<"P", "N", "G">>, <<"J", "P", "E", "G">>, <<"J", "P", "G">>,
      <<"B", "M", "P">> }

\* The encodings do_oscope_screen_capture and do_rf_screen_capture accept.
ImageFormats == { <<"P", "N", "G">>, <<"J", "P", "E", "G">>, <<"J", "P", "G">> }

\* DataFormats with one more extension.
DataFormats_WithPng ==
    { <<"C", "S", "V">>, <<"T", "X", "T">>, <<"P", "N", "G">> }

\* The extensions do_oscope_capture_data accepts.
DataFormats == { <<"C", "S", "V">>, <<"T", "X", "T">> }

\* Byte blocks an instrument may return to :DISPlay:DATA?
ImageBlocks == { <<>>, <<137, 80>> }

\* ScreenCapture without the test for an empty block: whatever was returned
\* is written to the file.
ScreenCapture_WritesEmpty(a, image_data, oc) ==
    LET filename  == Strip(a, Whitespace)
        extension == Extension(filename)
        request   == Run(instrument,
                         <<Step("query_binary_values", ":DISPlay:DATA? {}",
                                <<extension>>)>>,
                         oc, <<>>)
        save      == Call("file_write", <<filename>>, 0, oc[2])
    IN  IF instrument = 0
        THEN NoDevice
        ELSE IF a = <<>>
        THEN Usage
        ELSE IF extension \notin ImageFormats
        THEN Res(<<>>, <<"unsupported_format">>, "none", <<>>)
        ELSE Try(IF request.exc # "none"
                 THEN [request EXCEPT !.out = <<"requesting">>]
                 ELSE [(IF oc[2] # "ok"
                        THEN Res(request.log \o <<save>>, <<"requesting">>,
                                 oc[2], <<>>)
                        ELSE Res(request.log \o <<save>>,
                                 <<"requesting", "saved">>, "none",
                                 <<[name |-> filename,
                                    content |-> image_data]>>))
                         EXCEPT !.recv = <<image_data>>],
                 VisaThenAny)

\* do_oscope_screen_capture and do_rf_screen_capture (same body).
\* oc[1] is the outcome of query_binary_values, oc[2] of writing the file.
ScreenCapture(a, image_data, oc) ==
    LET filename  == Strip(a, Whitespace)
        extension == Extension(filename)
        request   == Run(instrument,
                         <<Step("query_binary_values", ":DISPlay:DATA? {}",
                                <<extension>>)>>,
                         oc, <<>>)
        save      == Call("file_write", <<filename>>, 0, oc[2])
    IN  IF instrument = 0
        THEN NoDevice
        ELSE IF a = <<>>
        THEN Usage
        ELSE IF extension \notin ImageFormats
        THEN Res(<<>>, <<"unsupported_format">>, "none", <<>>)
        ELSE Try(IF request.exc # "none"
                 THEN [request EXCEPT !.out = <<"requesting">>]
                 ELSE [(IF image_data = <<>>
                        THEN Res(request.log, <<"requesting", "no_image_data">>,
                                 "none", <<>>)
                        ELSE IF oc[2] # "ok"
                        THEN Res(request.log \o <<save>>, <<"requesting">>,
                                 oc[2], <<>>)
                        ELSE Res(request.log \o <<save>>,
                                 <<"requesting", "saved">>, "none",
                                 <<[name |-> filename,
                                    content |-> image_data]>>))
                         EXCEPT !.recv = <<image_data>>],
                 VisaThenAny)

do_oscope_screen_capture ==
    /\ pc = "prompt"
    /\ \E a \in FileArgs, image_data \in ImageBlocks, oc \in Outcomes(2) :
        /\ Return("oscope_screen_capture", a, ScreenCapture(a, image_data, oc))
        /\ UNCHANGED conn

do_rf_screen_capture ==
    /\ pc = "prompt"
    /\ \E a \in FileArgs, image_data \in ImageBlocks, oc \in Outcomes(2) :
        /\ Return("rf_screen_capture", a, ScreenCapture(a, image_data, oc))
        /\ UNCHANGED conn

Digits == <<"0", "1", "2", "3", "4", "5", "6", "7", "8", "9">>

IsDigit(c) == \E d \in 1..10 : Digits[d] = c

DigitValue(c) == (CHOOSE d \in 1..10 : Digits[d] = c) - 1

RECURSIVE NatValue(_)
NatValue(s) ==
    IF s = <<>> THEN 0
    ELSE 10 * NatValue(SubSeq(s, 1, Len(s) - 1)) + DigitValue(s[Len(s)])

\* float(s) on the strings the model uses (blanks, sign, decimal digits):
\* surrounding blanks are ignored, anything that is not a number raises
\* ValueError.  Values are whole numbers.
IsFloat(s) ==
    LET t == Strip(s, Whitespace)
        d == IF t # <<>> /\ t[1] = "-" THEN Tail(t) ELSE t
    IN  d # <<>> /\ \A i \in 1..Len(d) : IsDigit(d[i])

Float(s) ==
    LET t == Strip(s, Whitespace)
    IN  IF t[1] = "-" THEN 0 - NatValue(Tail(t)) ELSE NatValue(t)

\* list(map(float, response.strip().split(',')))
FloatList(response) ==
    LET parts == Split(Strip(response, Whitespace), ",")
    IN  [i \in 1..Len(parts) |-> Float(parts[i])]

FloatListError(response) ==
    LET parts == Split(Strip(response, Whitespace), ",")
    IN  IF \A i \in 1..Len(parts) : IsFloat(parts[i])
        THEN "none" ELSE "ValueError"

\* Answers to :WAVeform:PREamble?
PreambleResponses ==
    { <<"0",",","0",",","0",",","0",",","0",",","2",",","0",",","3",",","1">>,
      <<"9",",","9",",","9",",","9",",","9",",","1",",","9",",","2",",","5",
        ",","7">>,
      <<"0",",","0",",","0",",","0",",","0",",","1",",","0",",","1",",",
        "1","2","7">>,
      <<"0",",","0",",","0",",","0",",","0",",","2",",","0",",","3">>,
      <<"0",",","0",",","0",",","0",",","0",",","x",",","0",",","3",",","1">>,
      <<>> }

\* Answers to :WAVeform:DATA?
DataResponses ==
    { <<"1",",","3",",","0">>,
      <<"1","2","7",",","2","2","7",",","2","7">>,
      <<"5">>,
      <<"1",",","x">>,
      <<>> }

\* ProcessData that counts the samples from 1.
ProcessData_OneBased(preamble, raw_data) ==
    [k \in 1..Len(raw_data) |->
        << k * preamble[6],
           preamble[8] * (raw_data[k] - preamble[9]) >>]

\* The scaling loop of do_oscope_capture_data: sample i (counted from 0)
\* becomes (i * X_INCrement, Y_INCrement * (raw - Y_Reference)).
ProcessData(preamble, raw_data) ==
    [k \in 1..Len(raw_data) |->
        << (k - 1) * preamble[6],
           preamble[8] * (raw_data[k] - preamble[9]) >>]

\* CaptureData that keeps the scale values of an earlier capture instead of
\* querying the preamble: the format write and the data query are its only
\* transport calls.
CaptureData_Cached(a, preamble_str, raw_data_str, oc) ==
    LET filename  == Strip(a, Whitespace)
        extension == Extension(filename)
        cached    == <<0, 0, 0, 0, 0, 2, 0, 3, 1>>
        rest == Run(instrument,
                    <<Step("write", ":WAVeform:FORMat ASCii", <<>>),
                      Step("query", ":WAVeform:DATA?", <<>>)>>,
                    [i \in 1..2 |-> oc[i + 1]], <<>>)
        save == Call("file_write", <<filename>>, 0, oc[4])
    IN  IF instrument = 0
        THEN NoDevice
        ELSE IF a = <<>>
        THEN Usage
        ELSE IF extension \notin DataFormats
        THEN Res(<<>>, <<"unsupported_format">>, "none", <<>>)
        ELSE Try(IF rest.exc # "none"
                 THEN rest
                 ELSE [(IF FloatListError(raw_data_str) # "none"
                        THEN Res(rest.log, <<>>, "ValueError", <<>>)
                        ELSE IF oc[4] # "ok"
                        THEN Res(rest.log \o <<save>>, <<>>, oc[4], <<>>)
                        ELSE Res(rest.log \o <<save>>, <<"saved">>, "none",
                                 <<[name |-> filename,
                                    content |->
                                      [delimiter |->
                                          IF extension = <<"C", "S", "V">>
                                          THEN "," ELSE "\t",
                                       header |-> <<"Time (s)", "Voltage (V)">>,
                                       rows |->
                                          ProcessData(cached,
                                                      FloatList(raw_data_str))]
                                   ]>>))
                         EXCEPT !.recv = <<raw_data_str>>],
                 VisaThenAny)

\* do_oscope_capture_data.  oc[1] is the outcome of the preamble query,
\* oc[2] of the format write, oc[3] of the data query, oc[4] of writing
\* the file.
CaptureData(a, preamble_str, raw_data_str, oc) ==
    LET filename  == Strip(a, Whitespace)
        extension == Extension(filename)
        q1   == Run(instrument,
                    <<Step("query", ":WAVeform:PREamble?", <<>>)>>, oc, <<>>)
        rest == Run(instrument,
                    <<Step("write", ":WAVeform:FORMat ASCii", <<>>),
                      Step("query", ":WAVeform:DATA?", <<>>)>>,
                    [i \in 1..2 |-> oc[i + 1]], <<>>)
        log3 == q1.log \o rest.log
        save == Call("file_write", <<filename>>, 0, oc[4])
    IN  IF instrument = 0
        THEN NoDevice
        ELSE IF a = <<>>
        THEN Usage
        ELSE IF extension \notin DataFormats
        THEN Res(<<>>, <<"unsupported_format">>, "none", <<>>)
        ELSE Try(IF q1.exc # "none"
                 THEN q1
                 ELSE IF FloatListError(preamble_str) # "none"
                 THEN [Res(q1.log, <<>>, "ValueError", <<>>)
                         EXCEPT !.recv = <<preamble_str>>]
                 ELSE IF Len(FloatList(preamble_str)) < 9
                 THEN [Res(q1.log, <<>>, "IndexError", <<>>)
                         EXCEPT !.recv = <<preamble_str>>]
                 ELSE IF rest.exc # "none"
                 THEN [Res(log3, <<>>, rest.exc, <<>>)
                         EXCEPT !.recv = <<preamble_str>>]
                 ELSE [(IF FloatListError(raw_data_str) # "none"
                        THEN Res(log3, <<>>, "ValueError", <<>>)
                        ELSE IF oc[4] # "ok"
                        THEN Res(log3 \o <<save>>, <<>>, oc[4], <<>>)
                        ELSE Res(log3 \o <<save>>, <<"saved">>, "none",
                                 <<[name |-> filename,
                                    content |->
                                      [delimiter |->
                                          IF extension = <<"C", "S", "V">>
                                          THEN "," ELSE "\t",
                                       header |-> <<"Time (s)", "Voltage (V)">>,
                                       rows |->
                                          ProcessData(FloatList(preamble_str),
                                                      FloatList(raw_data_str))]
                                   ]>>))
                         EXCEPT !.recv = <<preamble_str, raw_data_str>>],
                 VisaThenAny)

do_oscope_capture_data ==
    /\ pc = "prompt"
    /\ \E a \in FileArgs, preamble_str \in PreambleResponses,
          raw_data_str \in DataResponses, oc \in Outcomes(4) :
        /\ Return("oscope_capture_data", a,
                  CaptureData(a, preamble_str, raw_data_str, oc))
        /\ UNCHANGED conn

----------------------------------------------------------------------------
(* Diagnostics *)

PingResponses == { <<"1">>, <<"T", "r", "u", "e">>, <<"0">>, <<"1", " ">> }

\* do_ping_device
PingDevice(response, oc) ==
    LET resp == Strip(response, Whitespace)
    IN  IF instrument = 0
        THEN NoDevice
        ELSE Try(Run(instrument, <<Step("query", "*OPC?", <<>>)>>, oc,
                     IF resp = <<"1">> \/ LowerCase(resp) = <<"t", "r", "u", "e">>
                     THEN <<"communication_ok">>
                     ELSE <<"unexpected_response">>),
                 <<[class |-> "VisaIOError", tag |-> "visa_error"],
                   [class |-> "Exception",   tag |-> "error"]>>)

do_ping_device ==
    /\ pc = "prompt"
    /\ \E a \in NoArgs, response \in PingResponses, oc \in Outcomes(1) :
        /\ Return("ping_device", a, PingDevice(response, oc))
        /\ UNCHANGED conn

\* The queries of do_check_capabilities in the order they are issued:
\* *IDN?, *OPT?, then candidate_cmds.
CapabilityQueries ==
    << "*IDN?", "*OPT?",
       ":MEASure:VOLTage:DC?", ":MEASure:VOLTage:AC?", ":MEASure:CURRent:DC?",
       ":MEASure:RESistance?", ":WAVeform:DATA?", ":TRIGger:SOURce?",
       ":OUTPut:STATe?" >>

\* Outcomes of the nine queries of one invocation: any subset of them
\* fails, the failures of one invocation being of one kind.
CapabilityOutcomes ==
    { [i \in 1..9 |-> IF i \in F THEN k ELSE "ok"] :
        F \in SUBSET (1..9), k \in Outcome \ {"ok"} }

\* CheckCapabilities that lists every probe it sent, failed or not.
CheckCapabilities_ListsAll(oc) ==
    LET stop == {i \in 1..9 : oc[i] \notin ExceptionSubclasses \cup {"ok"}}
        last == IF stop = {} THEN 9 ELSE Min(stop)
        log  == [i \in 1..last |->
                    [op |-> "query", fmt |-> CapabilityQueries[i],
                     args |-> <<>>, h |-> instrument, res |-> oc[i]]]
        supported == SelectSeq([i \in 1..7 |-> i + 2],
                               LAMBDA i : i <= last)
        head == <<"checking">>
                \o (IF oc[1] = "ok" THEN <<"idn">> ELSE <<"idn_failed">>)
                \o (IF last >= 2
                    THEN IF oc[2] = "ok" THEN <<"options">>
                         ELSE <<"options_failed">>
                    ELSE <<>>)
    IN  IF instrument = 0
        THEN NoDevice
        ELSE IF stop # {}
        THEN Res(log, <<"checking">>, oc[last], <<>>)
        ELSE Res(log,
                 head \o (IF supported # <<>>
                          THEN <<"supported">>
                               \o [k \in 1..Len(supported) |->
                                      CapabilityQueries[supported[k]]]
                          ELSE <<"none_supported">>),
                 "none", <<>>)

\* do_check_capabilities: every query has its own "except Exception", so a
\* failing query is passed over and the next one is issued; only an
\* exception that is no Exception ends the sequence.  The probes that
\* returned are printed after the "supported" heading.
CheckCapabilities(oc) ==
    LET stop == {i \in 1..9 : oc[i] \notin ExceptionSubclasses \cup {"ok"}}
        last == IF stop = {} THEN 9 ELSE Min(stop)
        log  == [i \in 1..last |->
                    [op |-> "query", fmt |-> CapabilityQueries[i],
                     args |-> <<>>, h |-> instrument, res |-> oc[i]]]
        supported == SelectSeq([i \in 1..7 |-> i + 2],
                               LAMBDA i : i <= last /\ oc[i] = "ok")
        head == <<"checking">>
                \o (IF oc[1] = "ok" THEN <<"idn">> ELSE <<"idn_failed">>)
                \o (IF last >= 2
                    THEN IF oc[2] = "ok" THEN <<"options">>
                         ELSE <<"options_failed">>
                    ELSE <<>>)
    IN  IF instrument = 0
        THEN NoDevice
        ELSE IF stop # {}
        THEN Res(log, <<"checking">>, oc[last], <<>>)
        ELSE Res(log,
                 head \o (IF supported # <<>>
                          THEN <<"supported">>
                               \o [k \in 1..Len(supported) |->
                                      CapabilityQueries[supported[k]]]
                          ELSE <<"none_supported">>),
                 "none", <<>>)

do_check_capabilities ==
    /\ pc = "prompt"
    /\ \E a \in NoArgs, oc \in CapabilityOutcomes :
        /\ Return("check_capabilities", a, CheckCapabilities(oc))
        /\ UNCHANGED conn

----------------------------------------------------------------------------
(* Leaving the console *)

\* Exit that ends with "return True" where the code has sys.exit(0): the
\* loop of cmdloop ends and postloop runs.
Exit_Returns(oc) ==
    LET history == Swallow(Res(<<Call("write_history_file", <<>>, 0, oc[1])>>,
                               <<>>,
                               IF oc[1] = "ok" THEN "none" ELSE oc[1], <<>>))
        closing == IF instrument = 0
                   THEN Res(<<>>, <<>>, "none", <<>>)
                   ELSE Swallow(Res(<<Call("close", <<>>, instrument, oc[2])>>,
                                    <<"closing">>,
                                    IF oc[2] = "ok" THEN "none" ELSE oc[2],
                                    <<>>))
    IN  IF history.exc # "none"
        THEN history
        ELSE IF closing.exc # "none"
        THEN Res(history.log \o closing.log, closing.out, closing.exc, <<>>)
        ELSE [Res(history.log \o closing.log, closing.out \o <<"goodbye">>,
                  "none", <<>>)
                EXCEPT !.stop = TRUE]

\* Exit with the history save and the close in one try block: a failing
\* history save skips the close.
Exit_OneTry(oc) ==
    LET history == Call("write_history_file", <<>>, 0, oc[1])
        close   == Call("close", <<>>, instrument, oc[2])
    IN  IF oc[1] \in ExceptionSubclasses
        THEN [Res(<<history>>, <<"goodbye">>, "SystemExit", <<>>)
                EXCEPT !.code = 0]
        ELSE IF oc[1] # "ok"
        THEN Res(<<history>>, <<>>, oc[1], <<>>)
        ELSE IF instrument = 0
        THEN [Res(<<history>>, <<"goodbye">>, "SystemExit", <<>>)
                EXCEPT !.code = 0]
        ELSE IF oc[2] \in ExceptionSubclasses \cup {"ok"}
        THEN [Res(<<history, close>>, <<"closing", "goodbye">>,
                  "SystemExit", <<>>)
                EXCEPT !.code = 0]
        ELSE Res(<<history, close>>, <<"closing">>, oc[2], <<>>)

\* do_exit: the history is saved and the connection closed, errors of
\* either passed over, then sys.exit(0).  oc[1] is the outcome of
\* write_history_file, oc[2] of close.
Exit(oc) ==
    LET history == Swallow(Res(<<Call("write_history_file", <<>>, 0, oc[1])>>,
                               <<>>,
                               IF oc[1] = "ok" THEN "none" ELSE oc[1], <<>>))
        closing == IF instrument = 0
                   THEN Res(<<>>, <<>>, "none", <<>>)
                   ELSE Swallow(Res(<<Call("close", <<>>, instrument, oc[2])>>,
                                    <<"closing">>,
                                    IF oc[2] = "ok" THEN "none" ELSE oc[2],
                                    <<>>))
    IN  IF history.exc # "none"
        THEN history
        ELSE IF closing.exc # "none"
        THEN Res(history.log \o closing.log, closing.out, closing.exc, <<>>)
        ELSE [Res(history.log \o closing.log, closing.out \o <<"goodbye">>,
                  "SystemExit", <<>>)
                EXCEPT !.code = 0]

\* Handles on which the calls of a handler result called close.
ClosedBy(r) ==
    {r.log[i].h : i \in {j \in 1..Len(r.log) : r.log[j].op = "close"}}

do_exit ==
    /\ pc = "prompt"
    /\ \E a \in NoArgs, oc \in Outcomes(2) :
        /\ Return("exit", a, Exit(oc))
        /\ closeCalled' = closeCalled \cup ClosedBy(Exit(oc))
        /\ UNCHANGED <<rm, instrument, selected_device_id, opens, timeout>>

\* do_EOF: prints a newline and returns do_exit(arg).
do_EOF ==
    /\ pc = "prompt"
    /\ \E a \in NoArgs, oc \in Outcomes(2) :
        /\ Return("EOF", a, [Exit(oc) EXCEPT !.out = <<"newline">> \o @])
        /\ closeCalled' = closeCalled \cup ClosedBy(Exit(oc))
        /\ UNCHANGED <<rm, instrument, selected_device_id, opens, timeout>>

\* Ctrl+C while cmdloop waits for a line: KeyboardInterrupt leaves cmdloop.
KeyboardInterruptAtPrompt ==
    /\ pc = "prompt"
    /\ Return("", <<>>, Res(<<>>, <<>>, "KeyboardInterrupt", <<>>))
    /\ UNCHANGED conn

\* Any other error raised inside cmdloop outside a handler.
ErrorAtPrompt ==
    /\ pc = "prompt"
    /\ Return("", <<>>, Res(<<>>, <<>>, "Exception", <<>>))
    /\ UNCHANGED conn

----------------------------------------------------------------------------
(* Specification *)

Next ==
    \/ Prompt
    \/ KeyboardInterruptAtPrompt
    \/ ErrorAtPrompt
    \/ do_devicelist
    \/ do_id
    \/ do_deviceselect
    \/ do_deviceinfo
    \/ do_reset
    \/ do_wait_opc
    \/ do_get_error
    \/ do_dmm_measure_dc_v
    \/ do_dmm_measure_ac_v
    \/ do_dmm_measure_dc_i
    \/ do_dmm_measure_ac_i
    \/ do_dmm_measure_continuity
    \/ do_dmm_measure_diode
    \/ do_dmm_measure2_resistance
    \/ do_dmm_measure4_resistance
    \/ do_oscope_get_setup
    \/ do_oscope_run
    \/ do_afg_output_on
    \/ do_afg_output_off
    \/ do_psu_output_on
    \/ do_psu_output_off
    \/ do_psu_protection_clear
    \/ do_vna_query_data
    \/ do_eload_input_on
    \/ do_eload_input_off
    \/ do_write
    \/ do_query
    \/ do_dmm_func_set
    \/ do_dmm_range_set
    \/ do_dmm_delay_set
    \/ do_dmm_resolution_set
    \/ do_oscope_set_timebase
    \/ do_oscope_set_trigger_source
    \/ do_psu_set_voltage
    \/ do_psu_set_current
    \/ do_psu_set_ovp
    \/ do_psu_set_ocp
    \/ do_psu_set_otp
    \/ do_rf_set_center_freq
    \/ do_rf_set_span
    \/ do_rf_set_power
    \/ do_sa_read_marker
    \/ do_eload_set_current
    \/ do_eload_set_voltage
    \/ do_eload_set_resistance
    \/ do_eload_set_power
    \/ do_eload_set_slew
    \/ do_eload_set_ovl
    \/ do_eload_set_opl
    \/ do_oscope_set_vertscale
    \/ do_oscope_measure_param
    \/ do_oscope_set_trigger_level
    \/ do_afg_set_wave
    \/ do_sa_set_rbw_vbw
    \/ do_vna_set_sweep
    \/ do_vna_measure_sparam
    \/ do_vna_set_trace
    \/ do_eload_set_transient
    \/ do_dmm_autoranging
    \/ do_eload_set_mode
    \/ do_oscope_set_trigger_slope
    \/ do_psu_measure_output
    \/ do_eload_measure_input
    \/ do_afg_psu_slew_set
    \/ do_oscope_screen_capture
    \/ do_rf_screen_capture
    \/ do_oscope_capture_data
    \/ do_ping_device
    \/ do_check_capabilities
    \/ do_exit
    \/ do_EOF

Spec == Init /\ [][Next]_vars

----------------------------------------------------------------------------
(* Properties *)

\* Names of the do_* handlers.
ConnectionCommands == {"devicelist", "deviceselect", "deviceinfo"}

ExitCommands == {"exit", "EOF"}

\* Commands whose argument is a comma-separated composite, with the number
\* of parts each unpacks.
CompositeParts ==
    [c \in {"oscope_set_vertscale", "oscope_measure_param",
            "oscope_set_trigger_level", "oscope_set_trigger_slope",
            "sa_set_rbw_vbw", "vna_measure_sparam", "afg_psu_slew_set",
            "afg_set_wave", "vna_set_sweep", "vna_set_trace",
            "eload_set_transient"} |->
        IF c \in {"afg_set_wave", "vna_set_sweep", "vna_set_trace",
                  "eload_set_transient"}
        THEN 3 ELSE 2]

\* Commands that need an argument.
ArgumentCommands ==
    DOMAIN CompositeParts \cup
    {"write", "query", "dmm_func_set", "dmm_range_set", "dmm_autoranging",
     "dmm_delay_set", "dmm_resolution_set", "oscope_set_timebase",
     "oscope_set_trigger_source", "oscope_screen_capture",
     "oscope_capture_data", "psu_set_voltage", "psu_set_current",
     "psu_set_ovp", "psu_set_ocp", "psu_set_otp", "psu_measure_output",
     "rf_set_center_freq", "rf_set_span", "rf_set_power", "sa_read_marker",
     "rf_screen_capture", "eload_set_mode", "eload_set_current",
     "eload_set_voltage", "eload_set_resistance", "eload_set_power",
     "eload_measure_input", "eload_set_slew", "eload_set_ovl",
     "eload_set_opl"}

\* A handler is being dispatched in this step.
Dispatch == pc = "prompt" /\ cmd' # ""

\* The open_resource call of the invocation failed with one of kinds.
OpenFailed(log, kinds) ==
    \E i \in 1..Len(log) : log[i].op = "open_resource" /\ log[i].res \in kinds

HasComma(s) == \E i \in 1..Len(s) : s[i] = ","

\* C1: a command that sends SCPI text, dispatched while no connection is
\* open, prints "no device selected", makes no call at all and leaves the
\* console state as it was, whatever its argument.
C1_NoConnectionNoTransport ==
    [][(Dispatch /\ instrument = 0
          /\ cmd' \notin ConnectionCommands \cup ExitCommands)
       => /\ out' = <<"no_device">>
          /\ TransportCalls' = <<>>
          /\ calls' = <<>>
          /\ written' = <<>>
          /\ conn' = conn
          /\ pc' = "done"]_vars

C1_Witness ==
    /\ pc = "done"
    /\ cmd = "oscope_capture_data"
    /\ arg = <<"f", ".", "c", "s", "v">>
    /\ instrument = 0
    /\ out = <<"no_device">>
    /\ calls = <<>>

\* C2 as stated: every composite command, given a non-empty argument that
\* does not split into the required number of parts, reports a format
\* error and makes no transport call.
C2_Original ==
    [][(Dispatch /\ instrument # 0
          /\ cmd' \in DOMAIN CompositeParts
          /\ arg' # <<>>
          /\ Len(Split(arg', ",")) # CompositeParts[cmd'])
       => /\ out' = <<"format_error">>
          /\ TransportCalls' = <<>>]_vars

\* C2 amended: that holds of every composite command but afg_psu_slew_set;
\* afg_psu_slew_set sends an argument without a comma as the rate in one
\* write, and for an argument with a comma that is not two parts it makes
\* no transport call and prints its general error message.
C2_CompositeFormatError ==
    [][(Dispatch /\ instrument # 0
          /\ cmd' \in DOMAIN CompositeParts
          /\ arg' # <<>>
          /\ Len(Split(arg', ",")) # CompositeParts[cmd'])
       => IF cmd' # "afg_psu_slew_set"
          THEN /\ out' = <<"format_error">>
               /\ TransportCalls' = <<>>
          ELSE IF HasComma(arg')
          THEN /\ out' = <<"error">>
               /\ TransportCalls' = <<>>
          ELSE /\ Len(calls') = 1
               /\ calls'[1].op = "write"
               /\ calls'[1].fmt = ":VOLTage:SLEW:RATE {}"
               /\ calls'[1].args = <<arg'>>
               /\ "format_error" \notin {out'[i] : i \in 1..Len(out')}]_vars

C2_Witness ==
    /\ pc = "done"
    /\ cmd = "vna_set_sweep"
    /\ arg = <<"1", ",", "2">>
    /\ instrument # 0
    /\ out = <<"format_error">>
    /\ calls = <<>>

\* C3: a command that needs an argument, dispatched with an empty one while
\* connected, prints its usage and makes no call; deviceselect with an
\* empty argument calls neither the resource manager nor the transport.
C3_EmptyArgumentUsage ==
    [][(Dispatch /\ arg' = <<>>)
       => /\ (instrument # 0 /\ cmd' \in ArgumentCommands)
                => (out' = <<"usage">> /\ calls' = <<>>)
          /\ cmd' \in {"deviceselect", "deviceinfo"}
                => (out' = <<"usage">> /\ calls' = <<>>)]_vars

C3_Witness ==
    /\ pc = "done"
    /\ cmd = "psu_measure_output"
    /\ arg = <<>>
    /\ instrument # 0
    /\ out = <<"usage">>
    /\ calls = <<>>

\* C4 as stated: a deviceselect whose open fails leaves handle and id
\* exactly as they were before it.
C4_Original ==
    [][(Dispatch /\ cmd' = "deviceselect"
          /\ OpenFailed(calls', ExceptionSubclasses))
       => /\ instrument' = instrument
          /\ selected_device_id' = selected_device_id]_vars

\* C4 amended: a deviceselect whose open fails leaves handle and id as they
\* were when the console was disconnected; when it was connected, close has
\* been called on the previous handle and handle and id are None.
C4_FailedSelectState ==
    [][(Dispatch /\ cmd' = "deviceselect"
          /\ OpenFailed(calls', ExceptionSubclasses))
       => IF instrument = 0
          THEN /\ instrument' = instrument
               /\ selected_device_id' = selected_device_id
          ELSE /\ instrument' = 0
               /\ selected_device_id' = None
               /\ instrument \in closeCalled'
               /\ calls'[1].op = "close"
               /\ calls'[1].h = instrument]_vars

C4_Witness ==
    /\ pc = "done"
    /\ cmd = "deviceselect"
    /\ Len(calls) = 2
    /\ calls[1].op = "close"
    /\ calls[2].op = "open_resource"
    /\ calls[2].res = "VisaIOError"
    /\ instrument = 0

C6_CloseBeforeOpen ==
    [][(Dispatch /\ cmd' = "deviceselect" /\ instrument # 0 /\ arg' # <<>>)
       => /\ Len(calls') >= 1
          /\ calls'[1].op = "close"
          /\ calls'[1].h = instrument
          /\ \A i \in 2..Len(calls') : calls'[i].op # "close"
          /\ calls'[1].res \in ExceptionSubclasses \cup {"ok"}
                => /\ Len(calls') >= 2
                   /\ calls'[2].op = "open_resource"
                   /\ calls'[2].args = <<Unquote(arg')>>
                   /\ \A i \in 3..Len(calls') : calls'[i].op # "open_resource"
                   /\ calls'[2].res = "ok"
                        => /\ instrument' = opens'
                           /\ opens' = opens + 1
                           /\ raised' = "none" => out'[1] = "connected"
                   /\ calls'[2].res = "VisaIOError"
                        => out' = <<"connect_error">>
                   /\ calls'[2].res = "Exception"
                        => out' = <<"unexpected_error">>]_vars

C6_Witness ==
    /\ pc = "done"
    /\ cmd = "deviceselect"
    /\ Len(calls) >= 2
    /\ calls[1].op = "close"
    /\ calls[1].res = "VisaIOError"
    /\ calls[2].op = "open_resource"
    /\ calls[2].res = "ok"
    /\ instrument = 2

\* C7: of the handles the console opened, only the current one can be
\* without a close call.
C7_AtMostOneOpenHandle ==
    /\ \A h \in 1..opens : h \notin closeCalled => h = instrument
    /\ Cardinality((1..opens) \ closeCalled) <= 1

C7_Witness ==
    /\ pc = "prompt"
    /\ opens = 2
    /\ instrument = 2
    /\ closeCalled = {1}

\* C8: no command but deviceselect, exit and EOF changes the handle or the
\* selected device id, whatever its argument and whatever its calls do.
C8_ConnectionUntouched ==
    [][(Dispatch /\ cmd' \notin {"deviceselect"} \cup ExitCommands)
       => /\ instrument' = instrument
          /\ selected_device_id' = selected_device_id]_vars

C8_Witness ==
    /\ pc = "done"
    /\ cmd = "query"
    /\ Len(calls) = 1
    /\ calls[1].res = "VisaIOError"
    /\ out = <<"visa_error">>
    /\ instrument # 0
    /\ selected_device_id # None

C10_ExitStatusZero ==
    /\ cmd = "exit" => (pc = "exited" /\ exit_status = Some(0))
    /\ raised \in {"KeyboardInterrupt", "Exception"}
          => /\ pc = "exited"
             /\ exit_status = Some(0)
             /\ out # <<>>
             /\ out[Len(out)] \in {"ctrl_c", "fatal"}
    /\ pc = "exited" => exit_status = Some(0)

C10_Witness ==
    /\ pc = "exited"
    /\ cmd = "exit"
    /\ Len(calls) = 2
    /\ calls[1].op = "write_history_file"
    /\ calls[1].res = "Exception"
    /\ calls[2].op = "close"
    /\ calls[2].res = "VisaIOError"
    /\ raised = "SystemExit"
    /\ exit_status = Some(0)

\* C11: exit and EOF, none of whose calls was broken off by a keyboard
\* interrupt, first try to save the history file and then, if a connection
\* is open, call close on it; whatever these two calls do, the process
\* ends through sys.exit(0) after the goodbye message.
C11_ExitSavesAndCloses ==
    (cmd \in ExitCommands
       /\ \A i \in 1..Len(calls) : calls[i].res # "KeyboardInterrupt")
    => /\ calls # <<>>
       /\ calls[1].op = "write_history_file"
       /\ instrument = 0 => Len(calls) = 1
       /\ instrument # 0 => /\ Len(calls) = 2
                            /\ calls[2].op = "close"
                            /\ calls[2].h = instrument
                            /\ instrument \in closeCalled
       /\ pc = "exited"
       /\ raised = "SystemExit"
       /\ exit_status = Some(0)
       /\ out[Len(out)] = "goodbye"

C11_Witness ==
    /\ pc = "exited"
    /\ cmd = "EOF"
    /\ instrument # 0
    /\ Len(calls) = 2
    /\ calls[1].op = "write_history_file"
    /\ calls[1].res = "Exception"
    /\ calls[2].op = "close"
    /\ calls[2].res = "VisaIOError"
    /\ out = <<"newline", "closing", "goodbye">>
    /\ raised = "SystemExit"

\* The preamble and the raw samples this invocation read are both lists of
\* numbers and the preamble has at least 9 elements.
NumericCapture ==
    /\ cmd = "oscope_capture_data"
    /\ Len(received) = 2
    /\ FloatListError(received[1]) = "none"
    /\ Len(FloatList(received[1])) >= 9
    /\ FloatListError(received[2]) = "none"

NoCallFailed == \A i \in 1..Len(calls) : calls[i].res = "ok"

\* C12: a capture that read a numeric preamble of at least 9 elements and
\* N numeric raw samples exports exactly N pairs in sample order, pair i
\* (from 0) being (i * preamble[5], preamble[7] * (raw[i] - preamble[8])).
C12_LinearTransform ==
    (NumericCapture /\ NoCallFailed)
    => /\ Len(written) = 1
       /\ LET preamble == FloatList(received[1])
              raw      == FloatList(received[2])
              pairs    == written[1].content.rows
          IN  /\ Len(pairs) = Len(raw)
              /\ \A i \in 0..(Len(raw) - 1) :
                    pairs[i + 1] = << i * preamble[5 + 1],
                                      preamble[7 + 1]
                                        * (raw[i + 1] - preamble[8 + 1]) >>

\* The example of the claim with the time in microseconds and the voltage
\* in hundredths of a volt: increments 1 and 1, reference 127, raw samples
\* 127, 227, 27.
C12_Witness ==
    /\ NumericCapture
    /\ NoCallFailed
    /\ FloatList(received[1])[6] = 1
    /\ FloatList(received[1])[8] = 1
    /\ FloatList(received[1])[9] = 127
    /\ FloatList(received[2]) = <<127, 227, 27>>
    /\ written[1].content.rows = << <<0, 0>>, <<1, 100>>, <<2, 0 - 100>> >>

\* Number of comma-separated elements of a response.
Elements(response) == Len(Split(Strip(response, Whitespace), ","))

\* The capture read a preamble of fewer than 9 elements or with an element
\* that is no number, or read raw samples that do not parse as numbers.
RejectedCapture ==
    /\ cmd = "oscope_capture_data"
    /\ received # <<>>
    /\ \/ Elements(received[1]) < 9
       \/ FloatListError(received[1]) # "none"
       \/ Len(received) = 2 /\ FloatListError(received[2]) # "none"

\* C13: a capture whose preamble is short or not numeric, or whose raw
\* samples do not parse (the empty response included), prints an error,
\* opens no export file, returns to the prompt and leaves the connection
\* and the rest of the console state as they were.
C13_CaptureRejects ==
    /\ [](RejectedCapture
          => /\ out = <<"unexpected_error">>
             /\ written = <<>>
             /\ \A i \in 1..Len(calls) : calls[i].op # "file_write"
             /\ raised = "none"
             /\ pc = "done")
    /\ [][(Dispatch /\ cmd' = "oscope_capture_data") => conn' = conn]_vars

C13_Witness ==
    /\ RejectedCapture
    /\ pc = "done"
    /\ instrument # 0
    /\ Elements(received[1]) = 9
    /\ FloatListError(received[1]) = "none"
    /\ received[2] = <<>>
    /\ Len(calls) = 3
    /\ out = <<"unexpected_error">>
    /\ written = <<>>

ScreenCaptureCommands == {"oscope_screen_capture", "rf_screen_capture"}

\* The text after the last dot of a file name in capitals, the whole name
\* when it has no dot.
LastPart(name) ==
    LET dots == {i \in 1..Len(name) : name[i] = "."}
    IN  Upper(IF dots = {} THEN name ELSE SubSeq(name, Max(dots) + 1, Len(name)))

\* C14: a screen capture on an open connection whose file name does not end
\* in PNG, JPEG or JPG (the formats the command names as supported) makes
\* no call at all, writes no file and prints the unsupported-format message.
C14_UnsupportedImageFormat ==
    (cmd \in ScreenCaptureCommands /\ instrument # 0 /\ arg # <<>>
       /\ LastPart(arg) \notin { <<"P", "N", "G">>, <<"J", "P", "E", "G">>,
                                 <<"J", "P", "G">> })
    => /\ calls = <<>>
       /\ written = <<>>
       /\ received = <<>>
       /\ out = <<"unsupported_format">>
       /\ pc = "done"

C14_Witness ==
    /\ cmd = "rf_screen_capture"
    /\ instrument # 0
    /\ arg = <<"f", ".", "b", "m", "p">>
    /\ calls = <<>>
    /\ out = <<"unsupported_format">>

HasDot(name) == \E i \in 1..Len(name) : name[i] = "."

\* The invocation issued a binary-block request.
Requested == \E i \in 1..Len(calls) : calls[i].op = "query_binary_values"

\* C15 as stated: the binary-block request is issued exactly when the text
\* after the last dot of the file name is PNG or JPEG, ignoring case.
C15_Original ==
    (cmd \in ScreenCaptureCommands /\ instrument # 0 /\ arg # <<>>)
    => (Requested <=> (HasDot(arg)
                         /\ LastPart(arg) \in { <<"P", "N", "G">>,
                                                <<"J", "P", "E", "G">> }))

\* C15 amended: the request is issued exactly when the text after the last
\* dot of the file name (the whole name when it has no dot) is PNG, JPEG or
\* JPG, ignoring case; it is the only transport call, it names that text in
\* capitals as the encoding, and a non-empty block that was returned is
\* written to the named file as it came.
C15_ImageRequest ==
    (cmd \in ScreenCaptureCommands /\ instrument # 0 /\ arg # <<>>)
    => /\ Requested <=> LastPart(arg) \in { <<"P", "N", "G">>,
                                            <<"J", "P", "E", "G">>,
                                            <<"J", "P", "G">> }
       /\ Requested
            => /\ Len(TransportCalls) = 1
               /\ calls[1].op = "query_binary_values"
               /\ calls[1].fmt = ":DISPlay:DATA? {}"
               /\ calls[1].args = <<LastPart(arg)>>
               /\ calls[1].h = instrument
       /\ written # <<>>
            => written = <<[name |-> arg, content |-> received[1]]>>
       /\ (received # <<>> /\ received[1] # <<>> /\ NoCallFailed)
            => /\ written # <<>>
               /\ out = <<"requesting", "saved">>

C15_Witness ==
    /\ cmd = "oscope_screen_capture"
    /\ instrument # 0
    /\ arg = <<"f", ".", "J", "P", "G">>
    /\ Len(calls) = 2
    /\ calls[1].args = << <<"J", "P", "G">> >>
    /\ received = << <<137, 80>> >>
    /\ written = <<[name |-> arg, content |-> <<137, 80>>]>>

\* C16: a screen capture whose request returned an empty block prints the
\* no-image-data error and returns without opening the target file.
C16_EmptyBlockNoFile ==
    (cmd \in ScreenCaptureCommands /\ received = << <<>> >>)
    => /\ out = <<"requesting", "no_image_data">>
       /\ written = <<>>
       /\ \A i \in 1..Len(calls) : calls[i].op # "file_write"
       /\ Len(calls) = 1
       /\ raised = "none"
       /\ pc = "done"

C16_Witness ==
    /\ cmd = "oscope_screen_capture"
    /\ arg = <<"f", ".", "p", "n", "g">>
    /\ Len(calls) = 1
    /\ calls[1].op = "query_binary_values"
    /\ calls[1].res = "ok"
    /\ received = << <<>> >>
    /\ out = <<"requesting", "no_image_data">>
    /\ written = <<>>

\* C17: a capture that reports success has written one file under the given
\* name: the header Time (s), Voltage (V), then one two-column row per raw
\* sample in sample order, delimited by a comma when the name ends in CSV
\* and by a tab when it ends in TXT, in any case of letters; a name ending
\* in anything else makes no call and writes no file.
C17_ExportTable ==
    (cmd = "oscope_capture_data" /\ instrument # 0 /\ arg # <<>>)
    => /\ LastPart(arg) \notin { <<"C", "S", "V">>, <<"T", "X", "T">> }
            => /\ calls = <<>>
               /\ written = <<>>
               /\ out = <<"unsupported_format">>
       /\ (NumericCapture /\ NoCallFailed) => out = <<"saved">>
       /\ out = <<"saved">>
            => /\ NumericCapture
               /\ Len(written) = 1
               /\ written[1].name = arg
               /\ LET table == written[1].content
                      raw   == FloatList(received[2])
                      scale == FloatList(received[1])
                  IN  /\ table.header = <<"Time (s)", "Voltage (V)">>
                      /\ Len(table.rows) = Len(raw)
                      /\ \A k \in 1..Len(raw) :
                            /\ Len(table.rows[k]) = 2
                            /\ table.rows[k][1] = (k - 1) * scale[6]
                            /\ table.rows[k][2] = scale[8] * (raw[k] - scale[9])
                      /\ LastPart(arg) = <<"C", "S", "V">>
                            => table.delimiter = ","
                      /\ LastPart(arg) = <<"T", "X", "T">>
                            => table.delimiter = "\t"

C17_Witness ==
    /\ cmd = "oscope_capture_data"
    /\ arg = <<"a", ".", "b", ".", "T", "x", "t">>
    /\ out = <<"saved">>
    /\ Len(written) = 1
    /\ written[1].content.delimiter = "\t"
    /\ Len(written[1].content.rows) = 3
    /\ Len(TransportCalls) = 3

\* C18: after every deviceselect that announced the connection, the timeout
\* of the new handle is 5000 ms, whatever timeout the handle carried when
\* open_resource returned it.
C18_Original ==
    (cmd = "deviceselect" /\ out # <<>> /\ out[1] = "connected"
       /\ \A i \in 1..Len(calls) : calls[i].op = "set_timeout"
                                     => calls[i].res = "ok")
    => timeout = Some(5000)

\* A transport call of the invocation raised.
TransportFailed ==
    \E i \in 1..Len(TransportCalls) : TransportCalls[i].res # "ok"

\* C19: the transport calls of one invocation carry pairwise different SCPI
\* texts, so nothing is sent twice and a call that failed is not issued
\* again; and an invocation with a failed transport call that returns to
\* the prompt leaves the console state the next invocation starts from as
\* it would be without the failure: untouched, or for deviceselect (whose
\* *IDN? failed) connected to the handle just opened.
C19_NoRetries ==
    /\ [](\A i, j \in 1..Len(TransportCalls) :
             i < j => <<TransportCalls[i].fmt, TransportCalls[i].args>>
                        # <<TransportCalls[j].fmt, TransportCalls[j].args>>)
    /\ [][(Dispatch /\ TransportFailed' /\ pc' = "done")
          => IF cmd' = "deviceselect"
             THEN /\ instrument' = opens'
                  /\ instrument' # 0
                  /\ selected_device_id' # None
                  /\ rm' = rm
             ELSE conn' = conn]_vars

C19_Witness ==
    /\ cmd = "check_capabilities"
    /\ pc = "done"
    /\ Len(calls) = 9
    /\ calls[3].res = "VisaIOError"
    /\ calls[7].res = "VisaIOError"
    /\ calls[4].res = "ok"
    /\ TransportFailed

\* C20: a capture on an open connection that passes the extension check
\* starts with the preamble query; one that reports success made exactly
\* three transport calls, all on the current handle: the preamble query,
\* the write selecting ASCII format, the data query, in this order, and the
\* exported pairs are scaled with elements 5, 7 and 8 of the preamble that
\* query returned.
C20_FreshPreamble ==
    (cmd = "oscope_capture_data" /\ instrument # 0 /\ arg # <<>>
       /\ LastPart(arg) \in { <<"C", "S", "V">>, <<"T", "X", "T">> })
    => /\ calls # <<>>
       /\ calls[1].op = "query"
       /\ calls[1].fmt = ":WAVeform:PREamble?"
       /\ calls[1].h = instrument
       /\ calls[1].res = "ok" => (received # <<>> /\ received[1] \in PreambleResponses)
       /\ out = <<"saved">>
            => /\ Len(TransportCalls) = 3
               /\ [i \in 1..3 |-> <<TransportCalls[i].op, TransportCalls[i].fmt>>]
                    = << <<"query", ":WAVeform:PREamble?">>,
                         <<"write", ":WAVeform:FORMat ASCii">>,
                         <<"query", ":WAVeform:DATA?">> >>
               /\ \A i \in 1..3 : /\ TransportCalls[i].h = instrument
                                  /\ TransportCalls[i].res = "ok"
                                  /\ calls[i] = TransportCalls[i]
               /\ Len(received) = 2
               /\ LET used == FloatList(received[1])
                      raw  == FloatList(received[2])
                      rows == written[1].content.rows
                  IN  \A k \in 1..Len(rows) :
                         rows[k] = << (k - 1) * used[6],
                                      used[8] * (raw[k] - used[9]) >>

C20_Witness ==
    /\ cmd = "oscope_capture_data"
    /\ out = <<"saved">>
    /\ Len(TransportCalls) = 3
    /\ FloatList(received[1]) = <<9, 9, 9, 9, 9, 1, 9, 2, 5, 7>>
    /\ FloatList(received[2]) = <<1, 3, 0>>
    /\ written[1].content.rows = << <<0, 0 - 8>>, <<1, 0 - 4>>, <<2, 0 - 10>> >>

\* The open_resource call of the invocation returned a handle.
Opened == \E i \in 1..Len(calls) : calls[i].op = "open_resource"
                                     /\ calls[i].res = "ok"

NotInterrupted == \A i \in 1..Len(calls) : calls[i].res # "KeyboardInterrupt"

\* C21: a deviceselect whose open_resource succeeded makes exactly one
\* transport call, the query *IDN? on the new handle; when that query fails
\* the handler prints the error after the connection message and returns,
\* with the handle and the cleaned device id still set.
C21_IdnAfterOpen ==
    (cmd = "deviceselect" /\ Opened /\ NotInterrupted)
    => /\ Len(TransportCalls) = 1
       /\ TransportCalls[1].op = "query"
       /\ TransportCalls[1].fmt = "*IDN?"
       /\ TransportCalls[1].h = opens
       /\ calls[Len(calls)] = TransportCalls[1]
       /\ instrument = opens
       /\ instrument # 0
       /\ selected_device_id = Some(Unquote(arg))
       /\ pc = "done"
       /\ raised = "none"
       /\ TransportCalls[1].res = "ok" => out = <<"connected", "idn">>
       /\ TransportCalls[1].res = "VisaIOError"
            => out = <<"connected", "visa_error">>
       /\ TransportCalls[1].res = "Exception"
            => out = <<"connected", "unexpected_error">>

C21_Witness ==
    /\ cmd = "deviceselect"
    /\ Opened
    /\ pc = "done"
    /\ Len(calls) = 4
    /\ calls[1].op = "close"
    /\ calls[4].fmt = "*IDN?"
    /\ calls[4].res = "VisaIOError"
    /\ calls[4].h = 2
    /\ instrument = 2
    /\ selected_device_id = Some(<<"B">>)
    /\ out = <<"connected", "visa_error">>

\* C22: at every prompt the handle is set exactly when the selected device
\* id is set; and the two change only together: either both become None or
\* deviceselect stores the handle open_resource just returned together with
\* the address it passed to that open_resource call.
C22_HandleIffId ==
    /\ [](pc = "prompt" => (instrument # 0 <=> selected_device_id # None))
    /\ [][(instrument' # instrument
             \/ selected_device_id' # selected_device_id)
          => \/ instrument' = 0 /\ selected_device_id' = None
             \/ /\ cmd' = "deviceselect"
                /\ instrument' = opens'
                /\ opens' = opens + 1
                /\ \E i \in 1..Len(calls') :
                      /\ calls'[i].op = "open_resource"
                      /\ calls'[i].res = "ok"
                      /\ selected_device_id' = Some(calls'[i].args[1])]_vars

C22_Witness ==
    /\ pc = "prompt"
    /\ opens = 2
    /\ instrument = 2
    /\ selected_device_id = Some(<<"A">>)
    /\ closeCalled = {1}

\* The writes of the commands that send several, in the order of the source.
WriteOrder ==
    [c \in {"afg_set_wave", "sa_set_rbw_vbw", "vna_set_sweep",
            "vna_measure_sparam", "vna_set_trace", "eload_set_transient"} |->
        CASE c = "afg_set_wave" ->
                <<":FUNCtion {}", ":FREQuency {}", ":VOLTage {}">>
          [] c = "sa_set_rbw_vbw" ->
                <<":SENSe:BANDwidth:RESolution {}", ":SENSe:BANDwidth:VIDeo {}">>
          [] c = "vna_set_sweep" ->
                <<":SENSe:FREQuency:STARt {}", ":SENSe:FREQuency:STOP {}",
                  ":SENSe:SWEep:POINts {}">>
          [] c = "vna_measure_sparam" ->
                <<":CALCulate:PARameter:DEFine \"Trc1_{}\",{}",
                  ":CALCulate:SELected:FORMat {}">>
          [] c = "vna_set_trace" ->
                <<":CALCulate{}:PARameter{}:DEFine \"{}\"",
                  ":DISPlay:WINDow{}:TRACe{}:FEED \"{}\"">>
          [] c = "eload_set_transient" ->
                <<":CURRent:STATic {}", ":CURRent:TRANsient:LEVel {}",
                  ":CURRent:TRANsient:PULSe:WIDTh {}",
                  ":FUNCtion:MODE TRANsient">>]

\* C23: the calls of a command that sends several writes are a prefix of
\* its writes in source order, on the current handle; every call but the
\* last one succeeded, so a failed write is the last call; the success
\* message is printed exactly when all writes were sent and succeeded; with
\* a device connected and a well-formed argument the first write is sent.
\* For eload_set_transient the fourth write, the switch to transient mode,
\* is therefore sent only after the three before it succeeded.
C23_WritesInOrder ==
    cmd \in DOMAIN WriteOrder
    => LET order == WriteOrder[cmd]
       IN  /\ Len(calls) <= Len(order)
           /\ \A i \in 1..Len(calls) :
                 /\ calls[i].op = "write"
                 /\ calls[i].fmt = order[i]
                 /\ calls[i].h = instrument
                 /\ i < Len(calls) => calls[i].res = "ok"
           /\ "ok" \in {out[i] : i \in 1..Len(out)}
                 <=> (Len(calls) = Len(order) /\ NoCallFailed)
           /\ (instrument # 0 /\ Elements(arg) = CompositeParts[cmd]
                 /\ arg # <<>>)
                 => calls # <<>>
           /\ (calls # <<>> /\ ~NoCallFailed /\ NotInterrupted)
                 => /\ pc = "done"
                    /\ out \in {<<"visa_error">>, <<"unexpected_error">>}

C23_Witness ==
    /\ cmd = "eload_set_transient"
    /\ pc = "done"
    /\ Len(calls) = 3
    /\ calls[1].res = "ok"
    /\ calls[2].res = "ok"
    /\ calls[3].res = "VisaIOError"
    /\ out = <<"visa_error">>

\* The nine queries of check_capabilities.
NineQueries ==
    << "*IDN?", "*OPT?",
       ":MEASure:VOLTage:DC?", ":MEASure:VOLTage:AC?", ":MEASure:CURRent:DC?",
       ":MEASure:RESistance?", ":WAVeform:DATA?", ":TRIGger:SOURce?",
       ":OUTPut:STATe?" >>

\* C24: check_capabilities on an open connection, not broken off by a
\* keyboard interrupt, makes exactly nine calls: the queries *IDN?, *OPT?
\* and the seven probes in this order, whichever of them fail; what it
\* prints after the two identification lines is the heading followed by
\* the probes whose query returned, in probe order, or the could-not-detect
\* message when none returned.
C24_NineQueries ==
    (cmd = "check_capabilities" /\ instrument # 0 /\ NotInterrupted)
    => /\ Len(calls) = 9
       /\ \A i \in 1..9 : /\ calls[i].op = "query"
                          /\ calls[i].fmt = NineQueries[i]
                          /\ calls[i].args = <<>>
                          /\ calls[i].h = instrument
       /\ pc = "done"
       /\ Len(out) >= 4
       /\ out[1] = "checking"
       /\ out[2] = IF calls[1].res = "ok" THEN "idn" ELSE "idn_failed"
       /\ out[3] = IF calls[2].res = "ok" THEN "options" ELSE "options_failed"
       /\ LET returned == SelectSeq([i \in 1..7 |-> i + 2],
                                    LAMBDA i : calls[i].res = "ok")
          IN  SubSeq(out, 4, Len(out)) =
                 IF returned = <<>>
                 THEN <<"none_supported">>
                 ELSE <<"supported">>
                      \o [k \in 1..Len(returned) |-> NineQueries[returned[k]]]

C24_Witness ==
    /\ cmd = "check_capabilities"
    /\ pc = "done"
    /\ Len(calls) = 9
    /\ calls[1].res = "Exception"
    /\ calls[3].res = "Exception"
    /\ calls[5].res = "Exception"
    /\ calls[9].res = "Exception"
    /\ out = <<"checking", "idn_failed", "options", "supported",
               ":MEASure:VOLTage:AC?", ":MEASure:RESistance?",
               ":WAVeform:DATA?", ":TRIGger:SOURce?">>

\* C25: whenever the process has ended with a connection open, close has
\* been called on that connection.
C25_Original ==
    (pc = "exited" /\ instrument # 0) => instrument \in closeCalled

\* Number of calls of one kind in the invocation.
Count(op) == Len(SelectSeq(calls, LAMBDA c : c.op = op))

\* C26: exit and EOF, not broken off by a keyboard interrupt, call close
\* once when a connection is open and not at all otherwise, save the
\* history once, and end the process through sys.exit(0): nothing is closed
\* or saved a second time afterwards.
C26_CloseAndSaveOnce ==
    (cmd \in ExitCommands /\ NotInterrupted)
    => /\ Count("close") = IF instrument # 0 THEN 1 ELSE 0
       /\ Count("write_history_file") = 1
       /\ Len(calls) = Count("close") + 1
       /\ raised = "SystemExit"
       /\ pc = "exited"

C26_Witness ==
    /\ cmd = "exit"
    /\ pc = "exited"
    /\ instrument = 2
    /\ calls = << [op |-> "write_history_file", fmt |-> "", args |-> <<>>,
                   h |-> 0, res |-> "ok"],
                  [op |-> "close", fmt |-> "", args |-> <<>>,
                   h |-> 2, res |-> "ok"] >>
    /\ out = <<"closing", "goodbye">>

EnumCommands ==
    {"dmm_autoranging", "eload_set_mode", "oscope_set_trigger_slope",
     "psu_measure_output", "eload_measure_input"}

\* The value command c takes from the argument a, in capitals; <<>> when a
\* is not of the form the command needs.
EnumValue(c, a) ==
    CASE c = "dmm_autoranging" -> Upper(a)
      [] c = "oscope_set_trigger_slope" ->
            LET parts == Split(a, ",")
            IN  IF Len(parts) = 2
                THEN Upper(Strip(parts[2], Whitespace))
                ELSE <<>>
      [] OTHER -> Upper(Strip(a, Whitespace))

EnumAllowed(c) ==
    CASE c = "dmm_autoranging" ->
            { <<"O", "N">>, <<"O", "F", "F">>, <<"1">>, <<"0">> }
      [] c = "eload_set_mode" ->
            { <<"C", "U", "R", "R">>, <<"V", "O", "L", "T">>,
              <<"R", "E", "S">>, <<"P", "O", "W">> }
      [] c = "oscope_set_trigger_slope" ->
            { <<"P", "O", "S">>, <<"N", "E", "G">>, <<"E", "I", "T", "H">> }
      [] OTHER ->
            { <<"V", "O", "L", "T">>, <<"C", "U", "R", "R">> }

\* C27: a command with an enumerated argument makes a call only when the
\* value taken from its argument, in capitals, is one of the allowed ones,
\* and then it is one transport call that carries that value; with a device
\* connected an allowed value is sent, and any other argument prints one
\* message and makes no call.
C27_EnumeratedArguments ==
    cmd \in EnumCommands
    => LET value == EnumValue(cmd, arg)
           ok    == value \in EnumAllowed(cmd)
       IN  /\ calls # <<>> => /\ ok
                              /\ Len(calls) = 1
                              /\ calls[1].op \in TransportOps
                              /\ calls[1].args = <<value>>
           /\ (instrument # 0 /\ ok) => Len(calls) = 1
           /\ (instrument # 0 /\ ~ok)
                 => /\ calls = <<>>
                    /\ Len(out) = 1
                    /\ out[1] \in {"usage", "invalid", "format_error"}
                    /\ pc = "done"

C27_Witness ==
    /\ cmd = "oscope_set_trigger_slope"
    /\ arg = <<"1", ",", " ", "p", "o", "s">>
    /\ Len(calls) = 1
    /\ calls[1].args = << <<"P", "O", "S">> >>
    /\ out = <<"ok">>

\* C28: a deviceselect with an empty argument, or without a resource
\* manager, makes no call (no close, no open), prints its message and
\* leaves the handle, the selected device id and the rest of the
\* connection state as they were.
C28_RejectedSelectFrame ==
    [][(Dispatch /\ cmd' = "deviceselect" /\ (arg' = <<>> \/ ~rm))
       => /\ calls' = <<>>
          /\ instrument' = instrument
          /\ selected_device_id' = selected_device_id
          /\ closeCalled' = closeCalled
          /\ conn' = conn
          /\ out' = IF arg' = <<>> THEN <<"usage">> ELSE <<"rm_unavailable">>
          /\ pc' = "done"]_vars

C28_Witness ==
    /\ cmd = "deviceselect"
    /\ arg = <<>>
    /\ pc = "done"
    /\ instrument = 1
    /\ selected_device_id = Some(<<"A">>)
    /\ closeCalled = {}
    /\ calls = <<>>
    /\ out = <<"usage">>

\* C29: write and query send no empty command text: with a device connected
\* an argument that is empty once blanks and double quotes around it are
\* removed makes no call and prints the usage, like a missing argument.
C29_Original ==
    cmd \in {"write", "query"}
    => /\ \A i \in 1..Len(calls) : calls[i].args # << <<>> >>
       /\ (instrument # 0 /\ Strip(Strip(arg, Whitespace), Quote) = <<>>)
             => /\ calls = <<>>
                /\ out = <<"usage">>

====
